---- MODULE Spec2Model ----
(***************************************************************************)
(* Data-lifecycle subsystem of the expense tracker: the live store (table  *)
(* costs), the archive store (table costs_archive), ArchiveService and the *)
(* operations of ExpenseService and ScheduledTasks that act on the stores. *)
(* Time is counted in whole years; amounts are counted in cents. The       *)
(* columns updated_at and archived_at are written by the code and read by  *)
(* none of its conditions: the rows of the model do not carry them.        *)
(***************************************************************************)
EXTENDS Integers, Sequences, FiniteSets, TLC

\* ---------------------------------------------------------------- bounds
MaxId == 2
MaxTime == 2
MaxRetention == 1
MaxBatch == 2
MaxLive == 5
MaxArchived == 3
MaxArchiveYears == 1
MaxRecords == 3

Categories == {"SALARIES", "SOFTWARE_TOOLS", "INFRASTRUCTURE"}
Months == {1}
Years == {2024}
Amounts == {150, 205}
Callers == {"scheduled", "manual"}
Times == 0..MaxTime
Retentions == 0..MaxRetention
BatchSizes == 0..MaxBatch
ArchiveYears == 0..MaxArchiveYears

VARIABLES now, nextId, live, archive, tableExists, env, run, resp,
          expenses, trends, sched

vars == <<now, nextId, live, archive, tableExists, env, run, resp, expenses, trends,
          sched>>

\* ------------------------------------------------------- store helpers
Ids(rows) == {r.id : r \in rows}

RowOf(rows, id) == CHOOSE r \in rows : r.id = id

Core(r) == [id |-> r.id, category |-> r.category, amount |-> r.amount,
            month |-> r.month, year |-> r.year]

Min(a, b) == IF a < b THEN a ELSE b

\* where: { createdAt: { lt: cutoffDate } }
Qualifying(rows, cutoff) == {r \in rows : r.createdAt < cutoff}

\* orderBy: { createdAt: 'asc' }; rows with equal createdAt keep insertion (id) order
Before(a, b) == \/ a.createdAt < b.createdAt
                \/ a.createdAt = b.createdAt /\ a.id <= b.id

RECURSIVE OrderByCreatedAt(_)
OrderByCreatedAt(S) ==
  IF S = {} THEN <<>>
  ELSE LET first == CHOOSE x \in S : \A y \in S : Before(x, y)
       IN  <<first>> \o OrderByCreatedAt(S \ {first})

\* the rows counted by prisma.cost.count, without its where clause
CountAllRows(rows, cutoff) == Cardinality(rows)

\* prisma.cost.count({ where: { createdAt: { lt: cutoffDate } } })
CountWhere(rows, cutoff) == Cardinality(Qualifying(rows, cutoff))

\* findMany that ignores skip and returns the first page every time
FindManyNoSkip(rows, cutoff, take, skip) ==
  LET sorted == OrderByCreatedAt(Qualifying(rows, cutoff))
  IN  SubSeq(sorted, 1, Min(take, Len(sorted)))

\* prisma.cost.findMany({ where, take, skip, orderBy })
FindMany(rows, cutoff, take, skip) ==
  LET sorted == OrderByCreatedAt(Qualifying(rows, cutoff))
  IN  SubSeq(sorted, skip + 1, Min(skip + take, Len(sorted)))

\* `${record.amount}`: the decimal printed without trailing zeros
DecimalToString(cents) ==
  LET whole == cents \div 100
      frac  == cents % 100
  IN  IF frac = 0 THEN [whole |-> whole, frac |-> 0, digits |-> 0]
      ELSE IF frac % 10 = 0 THEN [whole |-> whole, frac |-> frac \div 10, digits |-> 1]
      ELSE [whole |-> whole, frac |-> frac, digits |-> 2]

\* the literal read into a DECIMAL(12,2) column
NumericFromString(s) ==
  s.whole * 100 + (IF s.digits = 0 THEN 0
                   ELSE IF s.digits = 1 THEN s.frac * 10
                   ELSE s.frac)

\* one VALUES tuple of archiveBatch
ArchiveRow(r) ==
  [id |-> r.id, category |-> r.category,
   amount |-> NumericFromString(DecimalToString(r.amount)),
   month |-> r.month, year |-> r.year,
   createdAt |-> r.createdAt]

SeqToSet(s) == {s[i] : i \in 1..Len(s)}

\* INSERT ... ON CONFLICT (id) DO UPDATE: the new tuple replaces the old row
InsertOnConflictUpdate(arch, batch) ==
  {a \in arch : a.id \notin {batch[i].id : i \in 1..Len(batch)}}
    \cup {ArchiveRow(batch[i]) : i \in 1..Len(batch)}

\* an insert that keeps only the first VALUES tuple
InsertFirstRowOnly(arch, batch) ==
  IF Len(batch) = 0 \/ batch[1].id \in Ids(arch) THEN arch
  ELSE arch \cup {ArchiveRow(batch[1])}

\* INSERT ... ON CONFLICT (id) DO NOTHING
InsertOnConflictDoNothing(arch, batch) ==
  arch \cup {ArchiveRow(r) : r \in {x \in SeqToSet(batch) : x.id \notin Ids(arch)}}

\* a table without the constraint
TripleNeverTaken(rows, id, category, month, year) == FALSE

\* UNIQUE(category, month, year) of the costs table
TripleTaken(rows, id, category, month, year) ==
  \E o \in rows : /\ o.id # id
                  /\ o.category = category /\ o.month = month /\ o.year = year

\* prisma.cost.upsert({ where: { id }, update, create })
Upsert(lv, a) ==
  IF a.id \in Ids(lv)
  THEN LET l == RowOf(lv, a.id)
       IN  (lv \ {l}) \cup {[l EXCEPT !.category = a.category, !.amount = a.amount,
                                      !.month = a.month, !.year = a.year]}
  ELSE lv \cup {[id |-> a.id, category |-> a.category, amount |-> a.amount,
                 month |-> a.month, year |-> a.year,
                 createdAt |-> a.createdAt]}

\* a range that leaves out its end points
InRangeExclusive(arch, startDate, endDate) ==
  {a \in arch : a.createdAt > startDate /\ a.createdAt < endDate}

\* WHERE created_at >= startDate AND created_at <= endDate
InRange(arch, startDate, endDate) ==
  {a \in arch : a.createdAt >= startDate /\ a.createdAt <= endDate}

\* the SELECT has no ORDER BY: the rows come in any order
Orderings(S) ==
  {s \in [1..Cardinality(S) -> S] : \A i, j \in 1..Cardinality(S) : i # j => s[i] # s[j]}

\* ----------------------------------------------------- Number arithmetic
\* A Number of the aggregator is an IEEE-754 double. A value that is not 0 is
\* kept as [m, e]: m its 53 significand bits, most significant first, and e the
\* exponent of the last of them (value = m * 2^e). 0 is [m |-> <<>>, e |-> 0].
\* Amounts are never negative (CHECK amount >= 0), so there is no sign.
SignificandBits == 53
FractionBits == 64
GuardBits == 8

Zeros(n) == [i \in 1..n |-> 0]

Strip(m) ==
  IF \A i \in 1..Len(m) : m[i] = 0 THEN <<>>
  ELSE LET k == CHOOSE i \in 1..Len(m) : m[i] = 1 /\ \A j \in 1..(i - 1) : m[j] = 0
       IN  SubSeq(m, k, Len(m))

RECURSIVE ToBits(_)
ToBits(n) == IF n = 0 THEN <<>> ELSE Append(ToBits(n \div 2), n % 2)

RECURSIVE FromBits(_)
FromBits(m) ==
  IF Len(m) = 0 THEN 0 ELSE 2 * FromBits(SubSeq(m, 1, Len(m) - 1)) + m[Len(m)]

\* the carries of a + b: carries[i] is the carry out of the i lowest bits
RECURSIVE Carries(_, _, _, _)
Carries(a, b, i, carries) ==
  IF i > Len(a) THEN carries
  ELSE LET sum == a[Len(a) + 1 - i] + b[Len(b) + 1 - i]
                    + (IF i = 1 THEN 0 ELSE carries[i - 1])
       IN  IF sum >= 2 THEN Carries(a, b, i + 1, Append(carries, 1))
           ELSE Carries(a, b, i + 1, Append(carries, 0))

\* the sum of two bit strings, one bit longer than the longer of them
AddBits(a, b) ==
  LET n == IF Len(a) > Len(b) THEN Len(a) ELSE Len(b)
      x == Zeros(n - Len(a)) \o a
      y == Zeros(n - Len(b)) \o b
      carries == Carries(x, y, 1, <<>>)
  IN  [k \in 1..(n + 1) |->
         IF k = 1 THEN (IF n = 0 THEN 0 ELSE carries[n])
         ELSE (x[k - 1] + y[k - 1] + (IF k = n + 1 THEN 0 ELSE carries[n + 1 - k])) % 2]

\* the remainders of the long division of a bit string by a small divisor
RECURSIVE Remainders(_, _, _, _)
Remainders(num, d, i, rems) ==
  IF i > Len(num) THEN rems
  ELSE LET v == (IF i = 1 THEN 0 ELSE rems[i - 1]) * 2 + num[i]
       IN  IF v >= d THEN Remainders(num, d, i + 1, [rems EXCEPT ![i] = v - d])
           ELSE Remainders(num, d, i + 1, [rems EXCEPT ![i] = v])

\* quotient and remainder of a bit string by a small divisor
DivBits(num, d) ==
  LET rems == Remainders(num, d, 1, Zeros(Len(num)))
  IN  [q |-> [i \in 1..Len(num) |->
               IF (IF i = 1 THEN 0 ELSE rems[i - 1]) * 2 + num[i] >= d THEN 1 ELSE 0],
       r |-> IF Len(num) = 0 THEN 0 ELSE rems[Len(num)]]

\* round to nearest, ties to even: the rounding of every double operation
RoundToNearestEven(bits, e, sticky) ==
  LET m == Strip(bits)
      n == Len(m)
  IN  IF n = 0 THEN [m |-> <<>>, e |-> 0]
      ELSE IF n <= SignificandBits
      THEN [m |-> m \o Zeros(SignificandBits - n), e |-> e - (SignificandBits - n)]
      ELSE LET top == SubSeq(m, 1, SignificandBits)
               guard == m[SignificandBits + 1]
               rest == sticky \/ \E i \in (SignificandBits + 2)..n : m[i] = 1
               up == guard = 1 /\ (rest \/ top[SignificandBits] = 1)
               inc == Strip(AddBits(top, <<1>>))
           IN  IF ~up THEN [m |-> top, e |-> e + (n - SignificandBits)]
               ELSE IF Len(inc) = SignificandBits
               THEN [m |-> inc, e |-> e + (n - SignificandBits)]
               ELSE [m |-> SubSeq(inc, 1, SignificandBits),
                     e |-> e + (n - SignificandBits) + 1]

\* the double nearest to the decimal cents / 100
DecimalToNumber(cents) ==
  LET d == DivBits(ToBits(cents) \o Zeros(FractionBits), 100)
  IN  RoundToNearestEven(d.q, 0 - FractionBits, d.r # 0)

\* the conversions of the amounts that occur, worked out once
MaxCents == 1023
NumberTable == [cents \in 0..MaxCents |-> DecimalToNumber(cents)]

\* Number(expense.amount)
NumberOf(cents) ==
  IF cents <= MaxCents THEN NumberTable[cents] ELSE DecimalToNumber(cents)

\* x + y
NumberAdd(x, y) ==
  IF Len(x.m) = 0 THEN y
  ELSE IF Len(y.m) = 0 THEN x
  ELSE LET lo == IF x.e < y.e THEN x.e ELSE y.e
       IN  RoundToNearestEven(AddBits(x.m \o Zeros(x.e - lo), y.m \o Zeros(y.e - lo)),
                              lo, FALSE)

\* x / n for a count n >= 1 (n < 2^6: the quotient keeps its guard bits)
NumberDiv(x, n) ==
  IF Len(x.m) = 0 THEN x
  ELSE LET d == DivBits(x.m \o Zeros(GuardBits), n)
       IN  RoundToNearestEven(d.q, x.e - GuardBits, d.r # 0)

\* x < y
NumberLess(x, y) ==
  IF Len(y.m) = 0 THEN FALSE
  ELSE IF Len(x.m) = 0 THEN TRUE
  ELSE IF x.e # y.e THEN x.e < y.e
  ELSE \E i \in 1..SignificandBits :
         /\ x.m[i] < y.m[i]
         /\ \A j \in 1..(i - 1) : x.m[j] = y.m[j]

NumberZero == [m |-> <<>>, e |-> 0]

\* ------------------------------------------------------- trend aggregation
GroupBys == {"month", "year", "category"}

DigitChar == <<"0", "1", "2", "3", "4", "5", "6", "7", "8", "9">>

\* String(n) of a number n >= 0: its decimal digits
RECURSIVE String(_)
String(n) ==
  IF n < 10 THEN <<DigitChar[n + 1]>>
  ELSE Append(String(n \div 10), DigitChar[(n % 10) + 1])

\* s.padStart(len, ch)
PadStart(s, len, ch) ==
  IF Len(s) >= len THEN s ELSE [i \in 1..(len - Len(s)) |-> ch] \o s

\* `${expense.year}-${String(expense.month).padStart(2, '0')}`
MonthKey(year, month) == String(year) \o <<"-">> \o PadStart(String(month), 2, "0")

\* key.split('-'): the pieces between the dashes
RECURSIVE Split(_)
Split(s) ==
  IF \A i \in 1..Len(s) : s[i] # "-" THEN <<s>>
  ELSE LET k == CHOOSE i \in 1..Len(s) : s[i] = "-" /\ \A j \in 1..(i - 1) : s[j] # "-"
       IN  <<SubSeq(s, 1, k - 1)>> \o Split(SubSeq(s, k + 1, Len(s)))

DigitValue(ch) == (CHOOSE i \in 1..10 : DigitChar[i] = ch) - 1

\* parseInt(s) of a string that starts with a digit: the digits up to the first
\* character that is none
RECURSIVE ParseInt(_)
ParseInt(s) ==
  LET isDigit(ch) == \E i \in 1..10 : DigitChar[i] = ch
      n == IF \A i \in 1..Len(s) : isDigit(s[i]) THEN Len(s)
           ELSE (CHOOSE i \in 1..Len(s) : ~isDigit(s[i]) /\ \A j \in 1..(i - 1) : isDigit(s[j])) - 1
  IN  IF n = 0 THEN 0
      ELSE 10 * ParseInt(SubSeq(s, 1, n - 1)) + DigitValue(s[n])

\* parseInt(part || '0') of the piece i of a split key
ParsePart(parts, i) ==
  IF i > Len(parts) \/ Len(parts[i]) = 0 THEN 0 ELSE ParseInt(parts[i])

\* the key of the group of an expense, and the key of its breakdown entry
GroupKey(groupBy, expense) ==
  IF groupBy = "month" THEN MonthKey(expense.year, expense.month)
  ELSE IF groupBy = "year" THEN expense.year
  ELSE expense.category

BreakdownKey(groupBy, expense) ==
  IF groupBy = "category" THEN MonthKey(expense.year, expense.month)
  ELSE expense.category

\* a Map is the sequence of its entries in insertion order
MapHas(map, key) == \E i \in 1..Len(map) : map[i].key = key

MapIndex(map, key) == CHOOSE i \in 1..Len(map) : map[i].key = key

\* map.get(key) || 0
MapGetOrZero(map, key) ==
  IF MapHas(map, key) THEN map[MapIndex(map, key)].value ELSE NumberZero

\* map.set(key, value)
MapSet(map, key, value) ==
  IF MapHas(map, key) THEN [map EXCEPT ![MapIndex(map, key)].value = value]
  ELSE Append(map, [key |-> key, value |-> value])

\* the body of expenses.forEach
Accumulate(map, groupBy, expense) ==
  LET key == GroupKey(groupBy, expense)
      amount == NumberOf(expense.amount)
      map1 == IF MapHas(map, key) THEN map
              ELSE MapSet(map, key, [totalAmount |-> NumberZero, breakdown |-> <<>>])
      i == MapIndex(map1, key)
      sub == BreakdownKey(groupBy, expense)
      current == MapGetOrZero(map1[i].value.breakdown, sub)
  IN  [map1 EXCEPT ![i].value =
         [totalAmount |-> NumberAdd(@.totalAmount, amount),
          breakdown |-> MapSet(@.breakdown, sub, NumberAdd(current, amount))]]

RECURSIVE ForEach(_, _, _)
ForEach(list, n, groupBy) ==
  IF n = 0 THEN <<>> ELSE Accumulate(ForEach(list, n - 1, groupBy), groupBy, list[n])

\* the comparators handed to sort: negative, zero or positive
ByYearMonth(a, b) == IF a.year - b.year # 0 THEN a.year - b.year ELSE a.month - b.month

ByYear(a, b) == a.year - b.year

\* a comparator that puts the smaller total first
ByTotalAscending(a, b) ==
  IF NumberLess(a.totalAmount, b.totalAmount) THEN 0 - 1
  ELSE IF NumberLess(b.totalAmount, a.totalAmount) THEN 1 ELSE 0

\* (a, b) => b.totalAmount - a.totalAmount
ByTotalDescending(a, b) ==
  IF NumberLess(b.totalAmount, a.totalAmount) THEN 0 - 1
  ELSE IF NumberLess(a.totalAmount, b.totalAmount) THEN 1 ELSE 0

Compare(order, a, b) ==
  IF order = "yearMonth" THEN ByYearMonth(a, b)
  ELSE IF order = "year" THEN ByYear(a, b)
  ELSE ByTotalDescending(a, b)

\* Array.prototype.sort: stable, elements that compare equal keep their order
Sort(list, order) ==
  LET before(j, i) == \/ Compare(order, list[j], list[i]) < 0
                      \/ Compare(order, list[j], list[i]) = 0 /\ j < i
      place(i) == Cardinality({j \in 1..Len(list) : before(j, i)}) + 1
  IN  [k \in 1..Len(list) |-> list[CHOOSE i \in 1..Len(list) : place(i) = k]]

\* the entries of a Map of categories as { category, amount }
CategoryBreakdown(breakdown) ==
  [i \in 1..Len(breakdown) |->
     [category |-> breakdown[i].key, amount |-> breakdown[i].value]]

\* the entries of a Map of months as { month, year, amount }, sorted
MonthlyBreakdown(breakdown) ==
  Sort([i \in 1..Len(breakdown) |->
          [month |-> ParsePart(Split(breakdown[i].key), 2),
           year |-> ParsePart(Split(breakdown[i].key), 1),
           amount |-> breakdown[i].value]], "yearMonth")

RECURSIVE Sum(_, _)
Sum(amounts, n) ==
  IF n = 0 THEN NumberZero ELSE NumberAdd(Sum(amounts, n - 1), amounts[n])

\* Math.max(...amounts) and Math.min(...amounts) of a list that is not empty
MathMax(amounts) ==
  amounts[CHOOSE i \in 1..Len(amounts) :
            \A j \in 1..Len(amounts) : ~NumberLess(amounts[i], amounts[j])]

MathMin(amounts) ==
  amounts[CHOOSE i \in 1..Len(amounts) :
            \A j \in 1..Len(amounts) : ~NumberLess(amounts[j], amounts[i])]

\* a summary whose average is taken over the expenses, not over the groups
SummaryPerExpense(data, list) ==
  LET amounts == [i \in 1..Len(data) |-> data[i].totalAmount]
      totalAmount == Sum(amounts, Len(amounts))
  IN  [totalAmount |-> totalAmount,
       averageAmount |-> IF Len(list) > 0 THEN NumberDiv(totalAmount, Len(list))
                         ELSE NumberZero,
       highestAmount |-> IF Len(amounts) > 0 THEN MathMax(amounts) ELSE NumberZero,
       lowestAmount |-> IF Len(amounts) > 0 THEN MathMin(amounts) ELSE NumberZero]

\* the summary of the group totals
Summary(data, list) ==
  LET amounts == [i \in 1..Len(data) |-> data[i].totalAmount]
      totalAmount == Sum(amounts, Len(amounts))
  IN  [totalAmount |-> totalAmount,
       averageAmount |-> IF Len(amounts) > 0 THEN NumberDiv(totalAmount, Len(amounts))
                         ELSE NumberZero,
       highestAmount |-> IF Len(amounts) > 0 THEN MathMax(amounts) ELSE NumberZero,
       lowestAmount |-> IF Len(amounts) > 0 THEN MathMin(amounts) ELSE NumberZero]

\* return { data, summary }
Processed(data, list) == [data |-> data, summary |-> Summary(data, list)]

\* Array.from(monthlyMap.entries()).map(...).sort(...)
MonthlyData(monthlyMap) ==
  Sort([i \in 1..Len(monthlyMap) |->
          [month |-> ParsePart(Split(monthlyMap[i].key), 2),
           year |-> ParsePart(Split(monthlyMap[i].key), 1),
           totalAmount |-> monthlyMap[i].value.totalAmount,
           breakdown |-> CategoryBreakdown(monthlyMap[i].value.breakdown)]],
       "yearMonth")

processMonthlyTrends(list) ==
  Processed(MonthlyData(ForEach(list, Len(list), "month")), list)

\* Array.from(yearlyMap.entries()).map(...).sort(...)
YearlyData(yearlyMap) ==
  Sort([i \in 1..Len(yearlyMap) |->
          [year |-> yearlyMap[i].key,
           totalAmount |-> yearlyMap[i].value.totalAmount,
           breakdown |-> CategoryBreakdown(yearlyMap[i].value.breakdown)]],
       "year")

processYearlyTrends(list) ==
  Processed(YearlyData(ForEach(list, Len(list), "year")), list)

\* Array.from(categoryMap.entries()).map(...).sort(...)
CategoryData(categoryMap) ==
  Sort([i \in 1..Len(categoryMap) |->
          [category |-> categoryMap[i].key,
           totalAmount |-> categoryMap[i].value.totalAmount,
           breakdown |-> MonthlyBreakdown(categoryMap[i].value.breakdown)]],
       "totalDescending")

processCategoryTrends(list) ==
  Processed(CategoryData(ForEach(list, Len(list), "category")), list)

\* switch (query.groupBy)
ProcessBy(groupBy, list) ==
  IF groupBy = "year" THEN processYearlyTrends(list)
  ELSE IF groupBy = "category" THEN processCategoryTrends(list)
  ELSE processMonthlyTrends(list)

\* ------------------------------------------------------------ run state
IdleRun ==
  [pc |-> "idle", retentionYears |-> 0, batchSize |-> 0, cutoff |-> 0,
   indexes |-> 0,
   recordsToArchive |-> 0, offset |-> 0, archivedCount |-> 0, batch |-> <<>>,
   deletedCount |-> 0, failedAt |-> "none",
   liveAtStart |-> {}, archiveAtStart |-> {}, log |-> <<>>,
   prev |-> "none", prevCutoff |-> 0, prevRetention |-> 0, prevDeleted |-> 0]

NoResp == [op |-> "none", status |-> "none", value |-> 0, startDate |-> 0, endDate |-> 0]

\* no trends request has been answered
NoTrends == [op |-> "none"]

\* what the last call of ScheduledTasks, or the last job callback, ended with.
\* MAX_ARCHIVE_YEARS is kept as its characters; <<>> is a variable not set.
NoLast == [op |-> "none"]

MaintCallers == {"maintenanceTask", "triggerMaintenance"}

\* the maintenance task or triggerMaintenance is not executing
IdleMaint == [pc |-> "idle"]

\* ScheduledTasks before initialize, in a process without the variables set
NoSched ==
  [NODE_ENV |-> "unset", ENABLE_SCHEDULED_TASKS |-> "unset",
   CLEANUP_OLD_ARCHIVES |-> "unset", MAX_ARCHIVE_YEARS |-> <<>>,
   tasks |-> <<>>, orphaned |-> {},
   maint |-> [who \in MaintCallers |-> IdleMaint], last |-> NoLast]

AllIdle == \A c \in Callers : run[c].pc = "idle"

Quiet == AllIdle /\ resp.op = "none"

Init ==
  /\ now = 0
  /\ nextId = 1
  /\ live = {}
  /\ archive = {}
  /\ tableExists = FALSE
  /\ env \in [DATA_RETENTION_YEARS : Retentions, ARCHIVE_BATCH_SIZE : BatchSizes]
  /\ run = [c \in Callers |-> IdleRun]
  /\ resp = NoResp
  /\ expenses = <<>>
  /\ trends = NoTrends
  /\ sched = NoSched

\* ------------------------------------------------------- archiveOldData
Event(ev, ids) == [ev |-> ev, ids |-> ids]

IdsOf(batch) == [i \in 1..Len(batch) |-> batch[i].id]

Fail(r, at) == [r EXCEPT !.pc = "failed", !.failedAt = at, !.batch = <<>>]

\* a loop test that stops one record early
LoopTestShort(offset, recordsToArchive) ==
  IF offset < recordsToArchive - 1 THEN "read" ELSE "delete"

\* a loop that is left through its break only
LoopTestAlways(offset, recordsToArchive) == "read"

\* while (offset < recordsToArchive)
LoopTest(offset, recordsToArchive) ==
  IF offset < recordsToArchive THEN "read" ELSE "delete"

\* a loop that leaves for the delete without writing the batch it read
AfterReadSkipsWrite(batch) == "delete"

\* if (batch.length === 0) break
AfterRead(batch) == IF Len(batch) = 0 THEN "delete" ELSE "write"

\* retentionYears of the caller: the cron job reads the environment, the manual
\* trigger takes its argument unless it is absent or 0
RetentionOf(c, arg) ==
  IF c = "manual" /\ arg # 0 THEN arg ELSE env.DATA_RETENTION_YEARS

\* cutoffDate.setFullYear(cutoffDate.getFullYear() - retentionYears)
CutoffDate(t, retentionYears) == t - retentionYears

Wrote(r) == \E i \in 1..Len(r.log) : r.log[i].ev = "write"

\* how the previous run of this caller ended
Outcome(r) ==
  IF r.pc = "done" THEN "ok"
  ELSE IF r.pc = "failed" THEN (IF Wrote(r) THEN "partial" ELSE "failed")
  ELSE "none"

\* a caller invokes archiveOldData, for the first time or again after the
\* previous invocation returned or threw
StartArchive(c, arg) ==
  /\ run[c].pc \in {"idle", "done", "failed"}
  /\ run' = [run EXCEPT ![c] =
       [IdleRun EXCEPT !.pc = "ensure",
                       !.retentionYears = RetentionOf(c, arg),
                       !.batchSize = env.ARCHIVE_BATCH_SIZE,
                       !.cutoff = CutoffDate(now, RetentionOf(c, arg)),
                       !.liveAtStart = live,
                       !.archiveAtStart = archive,
                       !.prev = Outcome(run[c]),
                       !.prevCutoff = run[c].cutoff,
                       !.prevRetention = run[c].retentionYears,
                       !.prevDeleted = run[c].deletedCount]]
  /\ UNCHANGED <<now, nextId, live, archive, tableExists, env, resp, expenses, trends, sched>>

\* ensureArchiveTableExists, its first statement: CREATE TABLE IF NOT EXISTS
EnsureArchiveTableExists(c) ==
  /\ run[c].pc = "ensure"
  /\ \E ok \in BOOLEAN :
       IF ok
       THEN /\ tableExists' = TRUE
            /\ run' = [run EXCEPT ![c].pc = "index"]
       ELSE /\ tableExists' = tableExists
            /\ run' = [run EXCEPT ![c] = Fail(@, "ensure")]
  /\ UNCHANGED <<now, nextId, live, archive, env, resp, expenses, trends, sched>>

\* the indexes that ensureArchiveTableExists creates, in its order
ArchiveIndexes ==
  <<"idx_costs_archive_year_month", "idx_costs_archive_category",
    "idx_costs_archive_archived_at">>

\* ensureArchiveTableExists, one of its CREATE INDEX IF NOT EXISTS statements
\* is answered: the next one is awaited, or after the last the function
\* returns; the table stays when a statement fails
CreateIndexes(c) ==
  /\ run[c].pc = "index"
  /\ \E ok \in BOOLEAN :
       IF ok
       THEN run' = [run EXCEPT ![c] =
              [@ EXCEPT !.indexes = @ + 1,
                        !.pc = IF run[c].indexes + 1 = Len(ArchiveIndexes)
                               THEN "count" ELSE "index"]]
       ELSE run' = [run EXCEPT ![c] = Fail(@, "ensure")]
  /\ UNCHANGED <<now, nextId, live, archive, tableExists, env, resp, expenses, trends, sched>>

CountRecords(c) ==
  /\ run[c].pc = "count"
  /\ \E ok \in BOOLEAN :
       IF ok
       THEN LET n == CountWhere(live, run[c].cutoff)
            IN  run' = [run EXCEPT ![c] =
                  [@ EXCEPT !.recordsToArchive = n,
                            !.log = Append(@, Event("count", <<>>)),
                            !.pc = IF n = 0 THEN "done" ELSE LoopTest(0, n)]]
       ELSE run' = [run EXCEPT ![c] = Fail(@, "count")]
  /\ UNCHANGED <<now, nextId, live, archive, tableExists, env, resp, expenses, trends, sched>>

ReadBatch(c) ==
  /\ run[c].pc = "read"
  /\ \E ok \in BOOLEAN :
       IF ok
       THEN LET batch == FindMany(live, run[c].cutoff, run[c].batchSize, run[c].offset)
            IN  run' = [run EXCEPT ![c] =
                  [@ EXCEPT !.batch = batch,
                            !.log = Append(@, Event("read", IdsOf(batch))),
                            !.pc = AfterRead(batch)]]
       ELSE run' = [run EXCEPT ![c] = Fail(@, "read")]
  /\ UNCHANGED <<now, nextId, live, archive, tableExists, env, resp, expenses, trends, sched>>

ArchiveBatch(c) ==
  /\ run[c].pc = "write"
  /\ \E ok \in BOOLEAN :
       IF ok
       THEN /\ archive' = InsertOnConflictDoNothing(archive, run[c].batch)
            /\ run' = [run EXCEPT ![c] =
                 [@ EXCEPT !.archivedCount = @ + Len(run[c].batch),
                           !.offset = @ + run[c].batchSize,
                           !.batch = <<>>,
                           !.log = Append(@, Event("write", IdsOf(run[c].batch))),
                           !.pc = LoopTest(run[c].offset + run[c].batchSize,
                                           run[c].recordsToArchive)]]
       ELSE /\ archive' = archive
            /\ run' = [run EXCEPT ![c] = Fail(@, "write")]
  /\ UNCHANGED <<now, nextId, live, tableExists, env, resp, expenses, trends, sched>>

\* a bulk delete whose bound is one year too early
DeleteManyEarlier(rows, cutoff) == {r \in rows : r.createdAt < cutoff - 1}

\* prisma.cost.deleteMany({ where: { createdAt: { lt: cutoffDate } } })
DeleteManySet(rows, cutoff) == Qualifying(rows, cutoff)

DeleteMany(c) ==
  /\ run[c].pc = "delete"
  /\ \E ok \in BOOLEAN :
       IF ok
       THEN LET gone == DeleteManySet(live, run[c].cutoff)
            IN  /\ live' = live \ gone
                /\ run' = [run EXCEPT ![c] =
                     [@ EXCEPT !.deletedCount = Cardinality(gone),
                               !.log = Append(@, Event("delete", <<>>)),
                               !.pc = "done"]]
       ELSE /\ live' = live
            /\ run' = [run EXCEPT ![c] = Fail(@, "delete")]
  /\ UNCHANGED <<now, nextId, archive, tableExists, env, resp, expenses, trends, sched>>

\* the caller is done with the result (return) or the error (throw) of the run
ReturnArchive(c) ==
  /\ run[c].pc \in {"done", "failed"}
  /\ run' = [run EXCEPT ![c] = IdleRun]
  /\ UNCHANGED <<now, nextId, live, archive, tableExists, env, resp, expenses, trends, sched>>

\* --------------------------------------------------------- ExpenseService
CreateExpense(category, amount, month, year) ==
  /\ nextId <= MaxId
  /\ ~TripleTaken(live, 0, category, month, year)
  /\ live' = live \cup {[id |-> nextId, category |-> category, amount |-> amount,
                         month |-> month, year |-> year,
                         createdAt |-> now]}
  /\ nextId' = nextId + 1
  /\ UNCHANGED <<now, archive, tableExists, env, run, resp, expenses, trends, sched>>

UpdateExpense(id, amount) ==
  /\ id \in Ids(live)
  /\ LET l == RowOf(live, id)
     IN  /\ l.amount # amount
         /\ live' = (live \ {l}) \cup {[l EXCEPT !.amount = amount]}
  /\ UNCHANGED <<now, nextId, archive, tableExists, env, run, resp, expenses, trends, sched>>

DeleteExpense(id) ==
  /\ id \in Ids(live)
  /\ live' = live \ {RowOf(live, id)}
  /\ UNCHANGED <<now, nextId, archive, tableExists, env, run, resp, expenses, trends, sched>>

Tick ==
  /\ now < MaxTime
  /\ now' = now + 1
  /\ UNCHANGED <<nextId, live, archive, tableExists, env, run, resp, expenses, trends, sched>>

\* ------------------------------------------------------ restoreFromArchive
RestoreAnswer(status, value, startDate, endDate) ==
  [op |-> "restore", status |-> status, value |-> value,
   startDate |-> startDate, endDate |-> endDate]

\* restoreFromArchive is called: its SELECT is issued and awaited
RestoreFromArchive(startDate, endDate) ==
  /\ resp.op = "none"
  /\ resp' = [op |-> "restore", status |-> "running", value |-> 0,
              startDate |-> startDate, endDate |-> endDate,
              records |-> <<>>, i |-> 0]
  /\ UNCHANGED <<now, nextId, live, archive, tableExists, env, run, expenses, trends, sched>>

\* the SELECT of restoreFromArchive is answered, over the archive as it is at
\* that moment: the rows it read are kept for the loop
RestoreSelect ==
  /\ resp.op = "restore" /\ resp.status = "running" /\ resp.i = 0
  /\ \/ \* the SELECT fails: the archive table is absent, or a store error
        resp' = RestoreAnswer("error", 0, resp.startDate, resp.endDate)
     \/ /\ tableExists
        /\ LET records == InRange(archive, resp.startDate, resp.endDate)
           IN  IF records = {}
               THEN resp' = RestoreAnswer("ok", 0, resp.startDate, resp.endDate)
               ELSE \E order \in Orderings(records) :
                      resp' = [resp EXCEPT !.records = order, !.i = 1]
  /\ UNCHANGED <<now, nextId, live, archive, tableExists, env, run, expenses, trends, sched>>

\* one pass of the for loop of restoreFromArchive: the upsert of the next row
\* resolves, or rejects (a store error, or the UNIQUE constraint), and after
\* the last row the call returns records.length
RestoreUpsert ==
  /\ resp.op = "restore" /\ resp.status = "running" /\ resp.i >= 1
  /\ LET record == resp.records[resp.i]
     IN  \E ok \in BOOLEAN :
           IF ~ok \/ TripleTaken(live, record.id, record.category,
                                 record.month, record.year)
           THEN /\ live' = live
                /\ resp' = RestoreAnswer("error", 0, resp.startDate, resp.endDate)
           ELSE /\ live' = Upsert(live, record)
                /\ resp' = IF resp.i = Len(resp.records)
                           THEN RestoreAnswer("ok", Len(resp.records),
                                              resp.startDate, resp.endDate)
                           ELSE [resp EXCEPT !.i = @ + 1]
  /\ UNCHANGED <<now, nextId, archive, tableExists, env, run, expenses, trends, sched>>

\* ------------------------------------------------------ cleanupOldArchives
\* a delete that also takes the rows created at the cutoff
CleanupSetInclusive(arch, cutoff) == {a \in arch : a.createdAt <= cutoff}

\* DELETE FROM costs_archive WHERE created_at < cutoffDate
CleanupSet(arch, cutoff) == {a \in arch : a.createdAt < cutoff}

\* $executeRawUnsafe resolves to the number of affected rows
ExecuteRawResult(affected) == [kind |-> "number", value |-> affected]

\* result.count || 0: a number has no property count
DeletedCountOf(result) ==
  IF result.kind = "object" /\ result.count # 0 THEN result.count ELSE 0

\* the DELETE of cleanupOldArchives is answered: the archive it leaves and the
\* answer of the call. cutoffDate is the one computed when the call was made,
\* the rows are those of the archive at the moment of the DELETE
CleanupResults(call) ==
  {[archive |-> archive,
    resp |-> \* the DELETE fails: the archive table is absent, or a store error
             [op |-> "cleanup", status |-> "error", value |-> 0,
              startDate |-> 0, endDate |-> 0,
              maxArchiveYears |-> call.maxArchiveYears, calledAt |-> call.calledAt,
              cutoffDate |-> call.cutoffDate, affected |-> 0]]}
  \cup
  {[archive |-> archive \ gone,
    resp |-> [op |-> "cleanup", status |-> "ok",
              value |-> DeletedCountOf(ExecuteRawResult(Cardinality(gone))),
              startDate |-> 0, endDate |-> 0,
              maxArchiveYears |-> call.maxArchiveYears, calledAt |-> call.calledAt,
              cutoffDate |-> call.cutoffDate,
              affected |-> ExecuteRawResult(Cardinality(gone)).value]] :
     gone \in IF tableExists
              THEN {CleanupSet(archive, call.cutoffDate)}
              ELSE {}}

\* const cutoffDate = new Date(); cutoffDate.setFullYear(... - maxArchiveYears):
\* what a call of cleanupOldArchives holds while its DELETE is awaited
CleanupCall(maxArchiveYears) ==
  [maxArchiveYears |-> maxArchiveYears, calledAt |-> now,
   cutoffDate |-> CutoffDate(now, maxArchiveYears)]

\* cleanupOldArchives is called: the cutoff is taken from the clock and the
\* DELETE is issued and awaited
CleanupOldArchives(maxArchiveYears) ==
  /\ resp.op = "none"
  /\ resp' = [op |-> "cleanup", status |-> "running", value |-> 0,
              startDate |-> 0, endDate |-> 0,
              maxArchiveYears |-> maxArchiveYears, calledAt |-> now,
              cutoffDate |-> CleanupCall(maxArchiveYears).cutoffDate, affected |-> 0]
  /\ UNCHANGED <<now, nextId, live, archive, tableExists, env, run, expenses, trends, sched>>

\* the DELETE of the call resolves or rejects
CleanupOldArchivesDelete ==
  /\ resp.op = "cleanup" /\ resp.status = "running"
  /\ \E out \in CleanupResults(resp) :
       /\ archive' = out.archive
       /\ resp' = out.resp
  /\ UNCHANGED <<now, nextId, live, tableExists, env, run, expenses, trends, sched>>

\* --------------------------------------------------------- getArchiveStats
\* a check that takes the table to be there
TableExistsAssumed(exists) == TRUE

\* SELECT EXISTS (SELECT FROM information_schema.tables WHERE table_name = ...)
TableExistsQuery(exists) == exists

\* MIN(created_at) and MAX(created_at): no value over an empty table
Oldest(arch) == {a.createdAt : a \in {x \in arch : \A y \in arch : x.createdAt <= y.createdAt}}

Newest(arch) == {a.createdAt : a \in {x \in arch : \A y \in arch : x.createdAt >= y.createdAt}}

\* what a call of getArchiveStats holds: the query it awaits (pc), or how it
\* ended ("ok", "error"), and what its queries have answered so far
StatsStart ==
  [pc |-> "exists", fault |-> FALSE, total |-> 0, oldest |-> {}, newest |-> {}]

StatsFailed(fault) ==
  [pc |-> "error", fault |-> fault, total |-> 0, oldest |-> {}, newest |-> {}]

\* the query that the call awaits resolves or rejects: the EXISTS query, COUNT(*),
\* MIN/MAX, pg_size_pretty, each over the archive as it is at that moment
StatsQuery(st) ==
  {\* a store error in the query
   StatsFailed(TRUE),
   IF st.pc = "exists"
   THEN (IF ~TableExistsQuery(tableExists)
         THEN [st EXCEPT !.pc = "ok"]
         ELSE [st EXCEPT !.pc = "count"])
   ELSE IF ~tableExists
   THEN \* a query on a relation that does not exist
        StatsFailed(FALSE)
   ELSE IF st.pc = "count"
   THEN [st EXCEPT !.pc = "range", !.total = Cardinality(archive)]
   ELSE IF st.pc = "range"
   THEN [st EXCEPT !.pc = "size", !.oldest = Oldest(archive), !.newest = Newest(archive)]
   ELSE [st EXCEPT !.pc = "ok"]}

StatsResp(st) ==
  [op |-> "stats",
   status |-> IF st.pc \in {"ok", "error"} THEN st.pc ELSE "running",
   value |-> 0, startDate |-> 0, endDate |-> 0,
   pc |-> st.pc, fault |-> st.fault, totalArchivedRecords |-> st.total,
   oldestRecord |-> st.oldest, newestRecord |-> st.newest]

StatsOf(r) ==
  [pc |-> r.pc, fault |-> r.fault, total |-> r.totalArchivedRecords,
   oldest |-> r.oldestRecord, newest |-> r.newestRecord]

\* getArchiveStats is called: its EXISTS query is issued and awaited
GetArchiveStats ==
  /\ resp.op = "none"
  /\ resp' = StatsResp(StatsStart)
  /\ UNCHANGED <<now, nextId, live, archive, tableExists, env, run, expenses, trends, sched>>

\* the query that getArchiveStats awaits is answered
GetArchiveStatsQuery ==
  /\ resp.op = "stats" /\ resp.status = "running"
  /\ \E st \in StatsQuery(StatsOf(resp)) : resp' = StatsResp(st)
  /\ UNCHANGED <<now, nextId, live, archive, tableExists, env, run, expenses, trends, sched>>

\* ------------------------------------------------------------ aggregator
\* what a caller of a process function holds afterwards
ResultOf(groupBy, processed) ==
  [op |-> "process", groupBy |-> groupBy,
   data |-> processed.data, summary |-> processed.summary]

TrendsResult(groupBy, list) == ResultOf(groupBy, ProcessBy(groupBy, list))

\* one of the three process functions is applied to the list; a second call
\* takes another grouping of the same list
AggregateByMonth ==
  /\ trends.op = "none" \/ (trends.op = "process" /\ trends.groupBy # "month")
  /\ trends' = TrendsResult("month", expenses)
  /\ UNCHANGED <<now, nextId, live, archive, tableExists, env, run, resp, expenses, sched>>

AggregateByYear ==
  /\ trends.op = "none" \/ (trends.op = "process" /\ trends.groupBy # "year")
  /\ trends' = TrendsResult("year", expenses)
  /\ UNCHANGED <<now, nextId, live, archive, tableExists, env, run, resp, expenses, sched>>

AggregateByCategory ==
  /\ trends.op = "none" \/ (trends.op = "process" /\ trends.groupBy # "category")
  /\ trends' = TrendsResult("category", expenses)
  /\ UNCHANGED <<now, nextId, live, archive, tableExists, env, run, resp, expenses, sched>>

\* --------------------------------------------------------------- getTrends
\* A filter of a where clause: each condition is absent ({}) or holds one value.
NoFilter == [equals |-> {}, gt |-> {}, lt |-> {}, gte |-> {}, lte |-> {}]

\* an optional month of the query: 0 stands for a month that is not supplied
Supplied(month) == month # 0

\* a schema whose custom rule looks at the years only
ValidTrendsQueryYearsOnly(query) ==
  /\ query.startYear >= 2020 /\ query.startYear <= 2050
  /\ query.endYear >= 2020 /\ query.endYear <= 2050
  /\ Supplied(query.startMonth) => (query.startMonth >= 1 /\ query.startMonth <= 12)
  /\ Supplied(query.endMonth) => (query.endMonth >= 1 /\ query.endMonth <= 12)
  /\ ~(query.endYear < query.startYear)

\* the Joi schema of the query and its custom rule
ValidTrendsQuery(query) ==
  /\ query.startYear >= 2020 /\ query.startYear <= 2050
  /\ query.endYear >= 2020 /\ query.endYear <= 2050
  /\ Supplied(query.startMonth) => (query.startMonth >= 1 /\ query.startMonth <= 12)
  /\ Supplied(query.endMonth) => (query.endMonth >= 1 /\ query.endMonth <= 12)
  /\ ~(query.endYear < query.startYear)
  /\ (query.startYear = query.endYear /\ Supplied(query.startMonth)
        /\ Supplied(query.endMonth)) => ~(query.endMonth < query.startMonth)

\* a month filter that takes the bounds only when both are supplied
SameYearMonthBothOrNone(query) ==
  IF Supplied(query.startMonth) /\ Supplied(query.endMonth)
  THEN [NoFilter EXCEPT !.gte = {query.startMonth}, !.lte = {query.endMonth}]
  ELSE NoFilter

\* where.month of a range within one year
SameYearMonth(query) ==
  IF Supplied(query.startMonth) /\ Supplied(query.endMonth)
  THEN [NoFilter EXCEPT !.gte = {query.startMonth}, !.lte = {query.endMonth}]
  ELSE IF Supplied(query.startMonth) THEN [NoFilter EXCEPT !.gte = {query.startMonth}]
  ELSE IF Supplied(query.endMonth) THEN [NoFilter EXCEPT !.lte = {query.endMonth}]
  ELSE NoFilter

\* a first clause that takes the whole start year
StartClauseWholeYear(query) ==
  [year |-> [NoFilter EXCEPT !.equals = {query.startYear}], month |-> NoFilter]

\* the clause of the start year
StartClause(query) ==
  IF Supplied(query.startMonth)
  THEN [year |-> [NoFilter EXCEPT !.equals = {query.startYear}],
        month |-> [NoFilter EXCEPT !.gte = {query.startMonth}]]
  ELSE [year |-> [NoFilter EXCEPT !.equals = {query.startYear}], month |-> NoFilter]

\* the clause of the years in between, when there are any
MiddleClauses(query) ==
  IF query.endYear - query.startYear > 1
  THEN <<[year |-> [NoFilter EXCEPT !.gt = {query.startYear}, !.lt = {query.endYear}],
          month |-> NoFilter]>>
  ELSE <<>>

\* the clause of the end year
EndClause(query) ==
  IF Supplied(query.endMonth)
  THEN [year |-> [NoFilter EXCEPT !.equals = {query.endYear}],
        month |-> [NoFilter EXCEPT !.lte = {query.endMonth}]]
  ELSE [year |-> [NoFilter EXCEPT !.equals = {query.endYear}], month |-> NoFilter]

\* the where object that getTrends builds; category "" stands for no category
BuildWhere(query) ==
  LET category == IF query.category # "" THEN {query.category} ELSE {}
  IN  IF query.startYear = query.endYear
      THEN [year |-> [NoFilter EXCEPT !.equals = {query.startYear}],
            month |-> SameYearMonth(query),
            hasOR |-> FALSE, OR |-> <<>>, category |-> category]
      ELSE [year |-> NoFilter, month |-> NoFilter,
            hasOR |-> TRUE,
            OR |-> <<StartClause(query)>> \o MiddleClauses(query) \o <<EndClause(query)>>,
            category |-> category]

\* what the store makes of a where object
InFilter(v, f) ==
  /\ \A x \in f.equals : v = x
  /\ \A x \in f.gt : v > x
  /\ \A x \in f.lt : v < x
  /\ \A x \in f.gte : v >= x
  /\ \A x \in f.lte : v <= x

MatchesClause(r, clause) == InFilter(r.year, clause.year) /\ InFilter(r.month, clause.month)

Matches(r, where) ==
  /\ MatchesClause(r, where)
  /\ where.hasOR => \E i \in 1..Len(where.OR) : MatchesClause(r, where.OR[i])
  /\ \A c \in where.category : r.category = c

\* the order of the enum values
CategoryRank(category) ==
  IF category = "SALARIES" THEN 1 ELSE IF category = "SOFTWARE_TOOLS" THEN 2 ELSE 3

\* orderBy: [{ year: 'asc' }, { month: 'asc' }, { category: 'asc' }]
ByPeriodAndCategory(a, b) ==
  \/ a.year < b.year
  \/ a.year = b.year /\ a.month < b.month
  \/ a.year = b.year /\ a.month = b.month /\ CategoryRank(a.category) <= CategoryRank(b.category)

RECURSIVE OrderByPeriod(_)
OrderByPeriod(S) ==
  IF S = {} THEN <<>>
  ELSE LET first == CHOOSE x \in S : \A y \in S : ByPeriodAndCategory(x, y)
       IN  <<first>> \o OrderByPeriod(S \ {first})

\* prisma.cost.findMany({ where, orderBy })
FindManyWhere(rows, where) == OrderByPeriod({r \in rows : Matches(r, where)})

\* `${year}-${String(month || fallback).padStart(2, '0')}-01`
PeriodString(year, month, fallback) ==
  MonthKey(year, IF Supplied(month) THEN month ELSE fallback) \o <<"-", "0", "1">>

\* the trends object that is returned, with the query and the where object
TrendsResponse(query, processed) ==
  [op |-> "getTrends", status |-> "ok",
   query |-> query, where |-> BuildWhere(query),
   groupBy |-> query.groupBy,
   data |-> processed.data,
   summary |-> processed.summary,
   periodStart |-> PeriodString(query.startYear, query.startMonth, 1),
   periodEnd |-> PeriodString(query.endYear, query.endMonth, 12)]

GetTrends(query) ==
  /\ trends.op = "none"
  /\ ValidTrendsQuery(query)
  /\ \/ \* the store fails: DatabaseError
        /\ trends' = [op |-> "getTrends", status |-> "error"]
        /\ expenses' = <<>>
     \/ /\ expenses' = FindManyWhere(live, BuildWhere(query))
        /\ trends' = TrendsResponse(query, ProcessBy(query.groupBy, expenses'))
  /\ UNCHANGED <<now, nextId, live, archive, tableExists, env, run, resp, sched>>

\* ExpenseController.getTrends: the query is validated first and the service is
\* called with a valid query only; a query that is not valid throws a
\* ValidationError, which the error handler answers
RejectTrends(query) ==
  /\ trends.op = "none"
  /\ ~ValidTrendsQuery(query)
  /\ trends' = [op |-> "getTrends", status |-> "invalid",
                error |-> "ValidationError", query |-> query]
  /\ expenses' = <<>>
  /\ UNCHANGED <<now, nextId, live, archive, tableExists, env, run, resp, sched>>

TrendsRequest(query) == RejectTrends(query) \/ GetTrends(query)

\* the admin route sends the response; what earlier calls returned is forgotten
Respond ==
  /\ resp.op # "none" /\ resp.status # "running"
  /\ resp' = NoResp
  /\ run' = [c \in Callers |->
               IF run[c].pc \in {"done", "failed"} THEN IdleRun ELSE run[c]]
  /\ UNCHANGED <<now, nextId, live, archive, tableExists, env, expenses, trends, sched>>

\* --------------------------------------------------------- ScheduledTasks
\* A task of node-cron: cron.schedule with scheduled: false creates it without
\* starting it, start() makes its status 'scheduled', stop() makes it 'stoped'.
Created == "created"

\* a startAll that starts the first task only
StartFirstTask(tasks) ==
  [i \in 1..Len(tasks) |-> IF i = 1 THEN "scheduled" ELSE tasks[i]]

\* this.tasks.forEach(task => task.start())
StartAllTasks(tasks) == [i \in 1..Len(tasks) |-> "scheduled"]

\* this.tasks.forEach(task => task.stop())
StopAllTasks(tasks) == [i \in 1..Len(tasks) |-> "stoped"]

\* process.env.NODE_ENV === 'production' || process.env.ENABLE_SCHEDULED_TASKS === 'true'
SchedulingEnabled ==
  sched.NODE_ENV = "production" \/ sched.ENABLE_SCHEDULED_TASKS = "true"

\* the jobs that this.tasks holds and that are scheduled
Scheduled(tasks) == {i \in 1..Len(tasks) : tasks[i] = "scheduled"}

\* this.tasks.filter(task => task.getStatus() === 'scheduled').length
RunningTasks(tasks) == Cardinality(Scheduled(tasks))

\* this.tasks = [archiveTask, metricsResetTask, maintenanceTask]: the tasks of
\* an earlier initialize are not stopped, they leave this.tasks as they are
Initialize ==
  /\ sched' = [sched EXCEPT
       !.tasks = IF SchedulingEnabled
                 THEN StartAllTasks(<<Created, Created, Created>>)
                 ELSE <<Created, Created, Created>>,
       !.orphaned = @ \cup Scheduled(sched.tasks),
       !.last = [op |-> "initialize"]]
  /\ UNCHANGED <<now, nextId, live, archive, tableExists, env, run, resp, expenses, trends>>

StartAll ==
  /\ sched' = [sched EXCEPT !.tasks = StartAllTasks(@), !.last = [op |-> "startAll"]]
  /\ UNCHANGED <<now, nextId, live, archive, tableExists, env, run, resp, expenses, trends>>

StopAll ==
  /\ sched' = [sched EXCEPT !.tasks = StopAllTasks(@), !.last = [op |-> "stopAll"]]
  /\ UNCHANGED <<now, nextId, live, archive, tableExists, env, run, resp, expenses, trends>>

\* process.on('SIGINT' | 'SIGTERM', ...): the handler calls stopAll
Signal(sig) ==
  /\ sched' = [sched EXCEPT !.tasks = StopAllTasks(@), !.last = [op |-> sig]]
  /\ UNCHANGED <<now, nextId, live, archive, tableExists, env, run, resp, expenses, trends>>

GetStatus ==
  /\ sched' = [sched EXCEPT !.last =
       [op |-> "getStatus",
        totalTasks |-> Len(sched.tasks),
        runningTasks |-> RunningTasks(sched.tasks),
        environment |-> sched.NODE_ENV,
        scheduledTasksEnabled |-> (sched.ENABLE_SCHEDULED_TASKS = "true"
                                     \/ sched.NODE_ENV = "production")]]
  /\ UNCHANGED <<now, nextId, live, archive, tableExists, env, run, resp, expenses, trends>>

\* a catch block that throws again whoever the caller is
RethrowsAlways(who) == TRUE

\* the catch block of the manual triggers ends with `throw error`; the catch
\* block of a job callback does not
Rethrows(who) == who \in {"triggerArchival", "triggerMaintenance"}

\* how a job callback or a manual trigger ends: with the error of the archive
\* service logged, and thrown to the caller or not, or with its result
Ended(who, failed, cleanupCalled, cleanedCount) ==
  [op |-> who, failed |-> failed, logged |-> failed,
   thrown |-> failed /\ Rethrows(who),
   cleanupCalled |-> cleanupCalled, cleanedCount |-> cleanedCount]

\* job i of a cron.schedule call is started: the one this.tasks holds, or one
\* that an earlier initialize created
JobScheduled(i) == i \in Scheduled(sched.tasks) \/ i \in sched.orphaned

\* a trigger that waits for the other run to end
MayStartExclusive(c) == \A d \in Callers : run[d].pc = "idle"

\* neither the job nor the trigger looks at a lock or at the other run
MayStart(c) == run[c].pc = "idle"

\* the cron expression of the archive task matches
ArchiveTaskFires ==
  /\ JobScheduled(1)
  /\ MayStart("scheduled")
  /\ StartArchive("scheduled", 0)

ArchiveTaskEnds ==
  /\ run["scheduled"].pc \in {"done", "failed"}
  /\ run' = [run EXCEPT !["scheduled"] = IdleRun]
  /\ sched' = [sched EXCEPT !.last =
       Ended("archiveTask", run["scheduled"].pc = "failed", FALSE, 0)]
  /\ UNCHANGED <<now, nextId, live, archive, tableExists, env, resp, expenses, trends>>

TriggerArchival(retentionYears) ==
  /\ MayStart("manual")
  /\ StartArchive("manual", retentionYears)

TriggerArchivalEnds ==
  /\ run["manual"].pc \in {"done", "failed"}
  /\ run' = [run EXCEPT !["manual"] = IdleRun]
  /\ sched' = [sched EXCEPT !.last =
       Ended("triggerArchival", run["manual"].pc = "failed", FALSE, 0)]
  /\ UNCHANGED <<now, nextId, live, archive, tableExists, env, resp, expenses, trends>>

\* a test that takes every value that is set for yes
CleanupEnabledIfSet(value) == value # "unset"

\* process.env.CLEANUP_OLD_ARCHIVES === 'true'
CleanupEnabled(value) == value = "true"

\* parseInt(process.env.MAX_ARCHIVE_YEARS || '20')
MaxArchiveYearsOf(value) == ParseInt(IF Len(value) = 0 THEN <<"2", "0">> ELSE value)

\* how a maintenance ends; stats is what getArchiveStats answered
MaintenanceEnded(who, failed, cleanupCalled, cleanedCount, st) ==
  [sched EXCEPT
     !.maint[who] = IdleMaint,
     !.last = [op |-> who, failed |-> failed, logged |-> failed,
               thrown |-> Ended(who, failed, cleanupCalled, cleanedCount).thrown,
               cleanupCalled |-> cleanupCalled, cleanedCount |-> cleanedCount,
               totalArchivedRecords |-> st.total]]

\* the body of the maintenance task and of triggerMaintenance after a query of
\* getArchiveStats: the next query, the catch block, the call of
\* cleanupOldArchives when CLEANUP_OLD_ARCHIVES says so (which takes its cutoff
\* from the clock of this moment and issues the DELETE), or the end
AfterStats(who, st) ==
  IF st.pc = "error" THEN MaintenanceEnded(who, TRUE, FALSE, 0, st)
  ELSE IF st.pc # "ok" THEN [sched EXCEPT !.maint[who] = [pc |-> "stats", st |-> st]]
  ELSE IF CleanupEnabled(sched.CLEANUP_OLD_ARCHIVES)
  THEN [sched EXCEPT !.maint[who] =
          [pc |-> "cleanup", st |-> st,
           call |-> CleanupCall(MaxArchiveYearsOf(sched.MAX_ARCHIVE_YEARS))]]
  ELSE MaintenanceEnded(who, FALSE, FALSE, 0, st)

\* the maintenance body starts: getArchiveStats is called, its EXISTS query is
\* issued and awaited
Maintenance(who) ==
  /\ sched.maint[who].pc = "idle"
  /\ sched' = [sched EXCEPT !.maint[who] = [pc |-> "stats", st |-> StatsStart]]
  /\ UNCHANGED <<now, nextId, live, archive, tableExists, env, run, resp, expenses, trends>>

\* the query that its getArchiveStats awaits is answered
MaintenanceStats(who) ==
  /\ sched.maint[who].pc = "stats"
  /\ \E st \in StatsQuery(sched.maint[who].st) : sched' = AfterStats(who, st)
  /\ UNCHANGED <<now, nextId, live, archive, tableExists, env, run, resp, expenses, trends>>

\* the DELETE of its cleanupOldArchives resolves or rejects
MaintenanceCleanup(who) ==
  /\ sched.maint[who].pc = "cleanup"
  /\ \E out \in CleanupResults(sched.maint[who].call) :
       /\ archive' = out.archive
       /\ sched' = MaintenanceEnded(who, out.resp.status = "error", TRUE,
                                    out.resp.value, sched.maint[who].st)
  /\ UNCHANGED <<now, nextId, live, tableExists, env, run, resp, expenses, trends>>

\* the cron expression of the maintenance task matches
MaintenanceTaskFires ==
  /\ JobScheduled(3)
  /\ Maintenance("maintenanceTask")

TriggerMaintenance == Maintenance("triggerMaintenance")

\* ------------------------------------------------------------ behaviours
\* One operation at a time: an archival run is not interleaved with anything.
Finished(c) == run[c].pc \in {"idle", "done", "failed"}

Alone(c) == /\ Finished(c)
            /\ \A d \in Callers \ {c} : run[d].pc = "idle"
            /\ resp.op = "none"

\* nothing is running and at most one caller still holds a returned result
Returned == /\ resp.op = "none"
            /\ \A c \in Callers : run[c].pc \in {"idle", "done"}
            /\ \E c \in Callers : \A d \in Callers \ {c} : run[d].pc = "idle"

\* a run has thrown and its caller has not called again yet
Thrown == /\ resp.op = "none"
          /\ \E c \in Callers : /\ run[c].pc = "failed"
                                /\ \A d \in Callers \ {c} : run[d].pc = "idle"

Next ==
  \/ Alone("manual") /\ StartArchive("manual", 0)
  \/ \E c \in Callers : EnsureArchiveTableExists(c)
  \/ \E c \in Callers : CreateIndexes(c)
  \/ \E c \in Callers : CountRecords(c)
  \/ \E c \in Callers : ReadBatch(c)
  \/ \E c \in Callers : ArchiveBatch(c)
  \/ \E c \in Callers : DeleteMany(c)
  \/ \E c \in Callers : ReturnArchive(c)
  \/ \E category \in Categories, amount \in Amounts, month \in Months, year \in Years :
       Quiet /\ CreateExpense(category, amount, month, year)
  \/ \E id \in 1..MaxId, amount \in Amounts : Quiet /\ UpdateExpense(id, amount)
  \/ \E id \in 1..MaxId : Quiet /\ DeleteExpense(id)
  \/ (Quiet \/ Thrown) /\ Tick
  \/ \E startDate \in Times, endDate \in Times :
       Returned /\ RestoreFromArchive(startDate, endDate)
  \/ RestoreSelect
  \/ RestoreUpsert
  \/ Respond

Spec == Init /\ [][Next]_vars

\* ------------------------------------------------- one run over a given store
\* Stores as earlier operations leave them: rows 1..n created in id order, each
\* in its own (category, month), the first k of them already in the archive
\* (an earlier run that failed after k rows, or a restore of the oldest rows).
CategoryOf(i) ==
  IF i % 3 = 1 THEN "SALARIES" ELSE IF i % 3 = 2 THEN "SOFTWARE_TOOLS" ELSE "INFRASTRUCTURE"

StoredRow(i, createdAt) ==
  [id |-> i, category |-> CategoryOf(i),
   amount |-> IF i % 2 = 1 THEN 150 ELSE 205,
   month |-> ((i - 1) \div 3) + 1, year |-> 2024, createdAt |-> createdAt]

InitRun ==
  /\ now \in Times
  /\ env \in [DATA_RETENTION_YEARS : Retentions, ARCHIVE_BATCH_SIZE : BatchSizes]
  /\ \E n \in 0..MaxLive :
     \E ca \in [1..n -> Times] :
     \E k \in 0..n :
       /\ \A i \in 1..n : ca[i] <= now
       /\ \A i \in 1..n : \A j \in (i + 1)..n : ca[i] <= ca[j]
       /\ IF k = 0 THEN TRUE
          ELSE /\ env.ARCHIVE_BATCH_SIZE >= 1
               /\ now >= ca[k] + Min(env.DATA_RETENTION_YEARS, 1) + 1
               /\ IF k = n THEN TRUE
                  ELSE ca[k + 1] > ca[k] \/ k % env.ARCHIVE_BATCH_SIZE = 0
       /\ live = {StoredRow(i, ca[i]) : i \in 1..n}
       /\ archive = {ArchiveRow(StoredRow(i, ca[i])) : i \in 1..k}
       /\ nextId = n + 1
       /\ tableExists \in (IF k >= 1 THEN {TRUE} ELSE BOOLEAN)
  /\ run = [c \in Callers |-> IdleRun]
  /\ resp = NoResp
  /\ expenses = <<>>
  /\ trends = NoTrends
  /\ sched = NoSched

NextRun ==
  \/ \E c \in Callers, arg \in Retentions : Quiet /\ StartArchive(c, arg)
  \/ \E c \in Callers : EnsureArchiveTableExists(c)
  \/ \E c \in Callers : CreateIndexes(c)
  \/ \E c \in Callers : CountRecords(c)
  \/ \E c \in Callers : ReadBatch(c)
  \/ \E c \in Callers : ArchiveBatch(c)
  \/ \E c \in Callers : DeleteMany(c)
  \/ \E c \in Callers : ReturnArchive(c)

SpecRun == InitRun /\ [][NextRun]_vars

\* ------------------------------------------ maintenance over a given archive
\* Archives as earlier runs leave them: rows 1..n, each older than now, all in
\* the archive; the live store is empty or holds them again after a restore.
InitMaint ==
  /\ now \in Times
  /\ env \in [DATA_RETENTION_YEARS : {0}, ARCHIVE_BATCH_SIZE : {1}]
  /\ \E n \in 0..MaxArchived :
     \E ca \in [1..n -> Times] :
       /\ \A i \in 1..n : ca[i] < now
       /\ \A i \in 1..n : \A j \in (i + 1)..n : ca[i] <= ca[j]
       /\ archive = {ArchiveRow(StoredRow(i, ca[i])) : i \in 1..n}
       /\ live \in {{}, {StoredRow(i, ca[i]) : i \in 1..n}}
       /\ nextId = n + 1
       /\ tableExists \in (IF n >= 1 THEN {TRUE} ELSE BOOLEAN)
  /\ run = [c \in Callers |-> IdleRun]
  /\ resp = NoResp
  /\ expenses = <<>>
  /\ trends = NoTrends
  /\ sched = NoSched

NextMaint ==
  \/ \E maxArchiveYears \in ArchiveYears : CleanupOldArchives(maxArchiveYears)
  \/ CleanupOldArchivesDelete
  \/ GetArchiveStats
  \/ GetArchiveStatsQuery
  \/ Respond
  \/ Tick

SpecMaint == InitMaint /\ [][NextMaint]_vars


\* --------------------------------------------- aggregation of a given list
TrendPeriods == {<<2023, 1>>, <<2023, 2>>, <<2024, 1>>}

TrendCategories == {"SALARIES", "INFRASTRUCTURE"}

TrendAmounts == {10, 20, 30}

TrendRecords ==
  {[category |-> c, amount |-> a, month |-> p[2], year |-> p[1]] :
     c \in TrendCategories, a \in TrendAmounts, p \in TrendPeriods}

InitTrends ==
  /\ now = 0
  /\ nextId = 1
  /\ live = {}
  /\ archive = {}
  /\ tableExists = FALSE
  /\ env = [DATA_RETENTION_YEARS |-> 0, ARCHIVE_BATCH_SIZE |-> 1]
  /\ run = [c \in Callers |-> IdleRun]
  /\ resp = NoResp
  /\ expenses \in UNION {[1..n -> TrendRecords] : n \in 0..MaxRecords}
  /\ trends = NoTrends
  /\ sched = NoSched

NextTrends ==
  \/ AggregateByMonth
  \/ AggregateByYear
  \/ AggregateByCategory

SpecTrends == InitTrends /\ [][NextTrends]_vars

\* ------------------------------------------------ trends over a given store
RangeYears == {2022, 2023, 2024}

RangeMonths == {2, 3, 10, 11}

\* the periods that have an expense
StorePeriods ==
  {<<2022, 2>>, <<2022, 11>>, <<2023, 10>>, <<2023, 11>>, <<2023, 12>>,
   <<2024, 1>>, <<2024, 2>>, <<2024, 3>>}

\* the store holds one expense for each of them, in one of two categories
PeriodRow(year, month) ==
  [id |-> (year - 2022) * 12 + month,
   category |-> IF month % 2 = 0 THEN "SALARIES" ELSE "INFRASTRUCTURE",
   amount |-> IF month % 3 = 0 THEN 150 ELSE 205,
   month |-> month, year |-> year, createdAt |-> 0]

Queries ==
  [startYear : RangeYears, endYear : RangeYears,
   startMonth : {0} \cup RangeMonths, endMonth : {0} \cup RangeMonths,
   category : {"", "SALARIES"}, groupBy : GroupBys]

InitRange ==
  /\ now = 0
  /\ live = {PeriodRow(p[1], p[2]) : p \in StorePeriods}
  /\ nextId = 37
  /\ archive = {}
  /\ tableExists = FALSE
  /\ env = [DATA_RETENTION_YEARS |-> 0, ARCHIVE_BATCH_SIZE |-> 1]
  /\ run = [c \in Callers |-> IdleRun]
  /\ resp = NoResp
  /\ expenses = <<>>
  /\ trends = NoTrends
  /\ sched = NoSched

NextRange == \E query \in Queries : TrendsRequest(query)

SpecRange == InitRange /\ [][NextRange]_vars

\* ------------------------------------------------ the scheduler and its jobs
\* The process starts with NODE_ENV and ENABLE_SCHEDULED_TASKS set one way or
\* the other and one live record old enough to be archived. initialize,
\* startAll, stopAll, getStatus and the signals come in any order and any
\* number of times, and the archive task and the maintenance task run when
\* their cron expressions match. The manual triggers are followed in SpecJobs.
InitSched ==
  /\ now = 1
  /\ env = [DATA_RETENTION_YEARS |-> 0, ARCHIVE_BATCH_SIZE |-> 1]
  /\ archive = {}
  /\ live = {StoredRow(1, now - 1)}
  /\ nextId = 2
  /\ tableExists = FALSE
  /\ run = [c \in Callers |-> IdleRun]
  /\ resp = NoResp
  /\ expenses = <<>>
  /\ trends = NoTrends
  /\ sched \in [NODE_ENV : {"production", "development"},
                ENABLE_SCHEDULED_TASKS : {"true", "unset"},
                CLEANUP_OLD_ARCHIVES : {"unset"},
                MAX_ARCHIVE_YEARS : {<<>>},
                tasks : {<<>>}, orphaned : {{}},
                maint : {[who \in MaintCallers |-> IdleMaint]}, last : {NoLast}]

NextSched ==
  \/ Initialize
  \/ StartAll
  \/ StopAll
  \/ \E sig \in {"SIGINT", "SIGTERM"} : Signal(sig)
  \/ GetStatus
  \/ ArchiveTaskFires
  \/ EnsureArchiveTableExists("scheduled")
  \/ CreateIndexes("scheduled")
  \/ CountRecords("scheduled")
  \/ ReadBatch("scheduled")
  \/ ArchiveBatch("scheduled")
  \/ DeleteMany("scheduled")
  \/ ArchiveTaskEnds
  \/ MaintenanceTaskFires
  \/ MaintenanceStats("maintenanceTask")

SpecSched == InitSched /\ [][NextSched]_vars

\* ------------------------------------------------- jobs and manual triggers
\* The process has initialized its jobs in production, with an archive that
\* earlier runs have left and at most one live record old enough to be
\* archived. The two jobs and the two manual triggers start whenever they
\* like (triggerArchival without its argument), their awaited calls are
\* answered in any order and the clock goes on in between; at most MaxInFlight
\* of them execute at a time.
MaxOld == 1

MaxInFlight == 2

InitJobs ==
  /\ now = 1
  /\ env = [DATA_RETENTION_YEARS |-> 0, ARCHIVE_BATCH_SIZE |-> 1]
  /\ \E n \in 0..MaxOld :
     \E m \in 0..1 :
       /\ archive = {ArchiveRow(StoredRow(i, 0)) : i \in 1..n}
       /\ live = {StoredRow(n + i, now - 1) : i \in 1..m}
       /\ nextId = n + m + 1
       /\ tableExists \in (IF n >= 1 THEN {TRUE} ELSE BOOLEAN)
  /\ run = [c \in Callers |-> IdleRun]
  /\ resp = NoResp
  /\ expenses = <<>>
  /\ trends = NoTrends
  /\ sched \in [NODE_ENV : {"production"},
                ENABLE_SCHEDULED_TASKS : {"unset"},
                CLEANUP_OLD_ARCHIVES : {"true", "false", "unset"},
                MAX_ARCHIVE_YEARS : {<<>>, String(MaxArchiveYears)},
                tasks : {StartAllTasks(<<Created, Created, Created>>)},
                orphaned : {{}},
                maint : {[who \in MaintCallers |-> IdleMaint]},
                last : {[op |-> "initialize"]}]

\* the jobs and triggers that are executing
InFlightCount ==
  Cardinality({c \in Callers : run[c].pc # "idle"})
    + Cardinality({who \in MaintCallers : sched.maint[who].pc # "idle"})

MayBegin == InFlightCount < MaxInFlight

NextJobs ==
  \/ MayBegin /\ ArchiveTaskFires
  \/ MayBegin /\ TriggerArchival(0)
  \/ \E c \in Callers : EnsureArchiveTableExists(c)
  \/ \E c \in Callers : CreateIndexes(c)
  \/ \E c \in Callers : CountRecords(c)
  \/ \E c \in Callers : ReadBatch(c)
  \/ \E c \in Callers : ArchiveBatch(c)
  \/ \E c \in Callers : DeleteMany(c)
  \/ ArchiveTaskEnds
  \/ TriggerArchivalEnds
  \/ MayBegin /\ MaintenanceTaskFires
  \/ MayBegin /\ TriggerMaintenance
  \/ \E who \in MaintCallers : MaintenanceStats(who)
  \/ \E who \in MaintCallers : MaintenanceCleanup(who)
  \/ Tick

SpecJobs == InitJobs /\ [][NextJobs]_vars

\* ---------------------------------------------------- runs that overlap
\* The process has initialized its jobs in production. The archive task and
\* the manual trigger start whenever they like, so a run of one is interleaved
\* with a run of the other and with requests that delete and create records. The live store starts with up to MaxPaged records, all older than
\* the cutoff of the scheduled run. Each of the two callers is followed through
\* one run, whose result or error it keeps.
MaxPaged == 2

InitOverlap ==
  /\ now = 2
  /\ \E batchSize \in 1..MaxBatch :
       env = [DATA_RETENTION_YEARS |-> 0, ARCHIVE_BATCH_SIZE |-> batchSize]
  /\ \E n \in 0..MaxPaged :
     \E ca \in [1..n -> 0..1] :
       /\ \A i \in 1..n : \A j \in (i + 1)..n : ca[i] <= ca[j]
       /\ live = {StoredRow(i, ca[i]) : i \in 1..n}
       /\ nextId = n + 1
  /\ archive = {}
  /\ tableExists \in BOOLEAN
  /\ run = [c \in Callers |-> IdleRun]
  /\ resp = NoResp
  /\ expenses = <<>>
  /\ trends = NoTrends
  /\ sched = [NoSched EXCEPT
       !.NODE_ENV = "production",
       !.tasks = StartAllTasks(<<Created, Created, Created>>),
       !.last = [op |-> "initialize"]]

NoneEnded == \A c \in Callers : run[c].pc \notin {"done", "failed"}

NextOverlap ==
  \/ ArchiveTaskFires
  \/ \E retentionYears \in Retentions : TriggerArchival(retentionYears)
  \/ \E c \in Callers : EnsureArchiveTableExists(c)
  \/ \E c \in Callers : CreateIndexes(c)
  \/ \E c \in Callers : CountRecords(c)
  \/ \E c \in Callers : ReadBatch(c)
  \/ \E c \in Callers : ArchiveBatch(c)
  \/ \E c \in Callers : DeleteMany(c)
  \/ \E id \in 1..MaxId : DeleteExpense(id)
  \/ \E category \in Categories, amount \in Amounts, month \in Months, year \in Years :
       CreateExpense(category, amount, month, year)

SpecOverlap == InitOverlap /\ [][NextOverlap]_vars

\* ------------------------------------------- one run over a changing store
\* The manual trigger is called again and again, and requests delete, create
\* and restore records while its run pages through the live store. Every call
\* the run awaits returns, with a result or with an error: the step that
\* follows it is taken.
PagingStep ==
  \/ EnsureArchiveTableExists("manual")
  \/ CreateIndexes("manual")
  \/ CountRecords("manual")
  \/ ReadBatch("manual")
  \/ ArchiveBatch("manual")
  \/ DeleteMany("manual")

NextPaging ==
  \/ \E retentionYears \in Retentions : TriggerArchival(retentionYears)
  \/ PagingStep
  \/ TriggerArchivalEnds
  \/ \E id \in 1..MaxId : DeleteExpense(id)
  \/ \E category \in Categories, amount \in Amounts, month \in Months, year \in Years :
       CreateExpense(category, amount, month, year)
  \/ RestoreFromArchive(0, now)
  \/ RestoreSelect
  \/ RestoreUpsert
  \/ NoneEnded /\ Respond

SpecPaging == InitOverlap /\ [][NextPaging]_vars /\ WF_vars(PagingStep)

\* ------------------------------------------------------------ properties
\* what a run saw when it started
QualifiedAtStart(r) == {x \in r.liveAtStart : x.createdAt < r.cutoff}

Writes(r) == SelectSeq(r.log, LAMBDA e : e.ev = "write")

Reads(r) == SelectSeq(r.log, LAMBDA e : e.ev = "read")

RECURSIVE Flatten(_)
Flatten(w) == IF Len(w) = 0 THEN <<>> ELSE Head(w).ids \o Flatten(Tail(w))

CeilDiv(n, b) == (n + b - 1) \div b

CreatedAtOf(rows, id) == (CHOOSE x \in rows : x.id = id).createdAt

\* C1: in a run with batchSize >= 1 that nothing else interleaves with, every
\* live record that a step removes has a record with its id in the archive
\* store at that moment, whichever store call of the run fails.
C1_DeletesOnlyArchived ==
  [][\A c \in Callers :
       (run[c].pc # "idle" /\ run[c].batchSize >= 1)
         => \A r \in live \ live' : r.id \in Ids(archive)]_vars

C1_Witness ==
  \E c \in Callers :
    /\ run[c].pc = "done" /\ run[c].batchSize >= 1
    /\ run[c].deletedCount >= 3
    /\ Len(Writes(run[c])) >= 2
    /\ live # {}

\* C2: when an archive batch write fails in mid-run, the batches written before
\* it are still in the archive store, no bulk delete was issued and the live
\* store is as it was when the run started, and the run ends with the error.
C2_WriteFailureKeepsBatches ==
  \A c \in Callers :
    (run[c].failedAt = "write")
      => /\ run[c].pc = "failed"
         /\ live = run[c].liveAtStart
         /\ run[c].archiveAtStart \subseteq archive
         /\ \A i \in 1..Len(run[c].log) :
              /\ run[c].log[i].ev # "delete"
              /\ run[c].log[i].ev = "write"
                   => SeqToSet(run[c].log[i].ids) \subseteq Ids(archive)

C2_Witness ==
  \E c \in Callers :
    /\ run[c].failedAt = "write"
    /\ Len(Writes(run[c])) >= 1
    /\ Len(Writes(run[c])[1].ids) = 2
    /\ Ids(archive) # Ids(run[c].archiveAtStart)

\* C5: with N >= 1 qualifying records, batchSize b >= 1 and no failure, a run
\* makes ceil(N/b) batch writes, each of b records but for a smaller last one,
\* in ascending createdAt order, and returns archivedCount = deletedCount = N.
C5_BatchesCoverAll ==
  \A c \in Callers :
    LET r == run[c]
        N == Cardinality(QualifiedAtStart(r))
        b == r.batchSize
        w == Writes(r)
        all == Flatten(w)
    IN  (r.pc = "done" /\ N >= 1 /\ b >= 1)
          => /\ Len(w) = CeilDiv(N, b)
             /\ \A i \in 1..Len(w) :
                  Len(w[i].ids) = IF i < Len(w) THEN b ELSE N - (Len(w) - 1) * b
             /\ Len(all) = N
             /\ SeqToSet(all) = Ids(QualifiedAtStart(r))
             /\ \A i \in 1..Len(all) : \A j \in (i + 1)..Len(all) :
                  CreatedAtOf(r.liveAtStart, all[i]) <= CreatedAtOf(r.liveAtStart, all[j])
             /\ r.archivedCount = N
             /\ r.deletedCount = N

C5_Witness ==
  \E c \in Callers :
    LET r == run[c]
        w == Writes(r)
    IN  /\ r.pc = "done" /\ r.batchSize = 2
        /\ Cardinality(QualifiedAtStart(r)) = 5
        /\ Len(w) = 3 /\ Len(w[3].ids) = 1
        /\ r.archivedCount = 5 /\ r.deletedCount = 5
        /\ \E x \in QualifiedAtStart(r), y \in QualifiedAtStart(r) : x.createdAt < y.createdAt

\* C6: the steps of a run come in the order count, then read and write of one
\* batch after the other, then the bulk delete: a batch is read only after the
\* write of the batch before it, and the delete comes after the last write.
C6_StepOrder ==
  \A c \in Callers :
    LET log == run[c].log
    IN  \A i \in 1..Len(log) :
          /\ (log[i].ev = "count") <=> (i = 1)
          /\ log[i].ev = "read" => (i = 2 \/ log[i - 1].ev = "write")
          /\ log[i].ev = "write" => /\ log[i - 1].ev = "read"
                                    /\ log[i].ids = log[i - 1].ids
                                    /\ Len(log[i].ids) >= 1
          /\ log[i].ev = "delete"
               => /\ i = Len(log)
                  /\ i >= 3
                  /\ \/ log[i - 1].ev = "write"
                     \/ log[i - 1].ev = "read" /\ Len(log[i - 1].ids) = 0

C6_Witness ==
  \E c \in Callers :
    /\ run[c].pc = "done"
    /\ Len(Writes(run[c])) >= 2
    /\ run[c].log[Len(run[c].log)].ev = "delete"

\* C8: when no live record is older than the cutoff, the run returns
\* archivedCount = 0 and deletedCount = 0, reads no batch, and neither adds to
\* the archive store nor removes from the live store.
C8_NothingToArchive ==
  \A c \in Callers :
    (run[c].pc # "idle" /\ QualifiedAtStart(run[c]) = {})
      => /\ Len(Reads(run[c])) = 0
         /\ archive = run[c].archiveAtStart
         /\ live = run[c].liveAtStart
         /\ run[c].archivedCount = 0 /\ run[c].deletedCount = 0
         /\ run[c].pc \in {"ensure", "index", "count", "done", "failed"}
         /\ run[c].pc = "failed" => run[c].failedAt \in {"ensure", "count"}

C8_Witness ==
  \E c \in Callers :
    /\ run[c].pc = "done" /\ QualifiedAtStart(run[c]) = {}
    /\ Cardinality(run[c].liveAtStart) >= 2
    /\ archive # {}
    /\ run[c].batchSize >= 1


\* C3: a second run with the same cutoff, right after a first run completed,
\* returns archivedCount = 0 and deletedCount = 0 and changes neither store.
C3_SecondRunIsNoOp ==
  \A c \in Callers :
    (/\ run[c].pc # "idle" /\ resp.op = "none"
     /\ run[c].prev = "ok" /\ run[c].prevCutoff = run[c].cutoff)
      => /\ live = run[c].liveAtStart
         /\ archive = run[c].archiveAtStart
         /\ run[c].archivedCount = 0
         /\ run[c].deletedCount = 0
         /\ Len(Reads(run[c])) = 0

C3_Witness ==
  \E c \in Callers :
    /\ run[c].pc = "done" /\ resp.op = "none" /\ run[c].prev = "ok"
    /\ run[c].prevCutoff = run[c].cutoff
    /\ run[c].prevDeleted >= 1
    /\ archive # {}
    /\ live # {}

\* C4: a run with the same retention that follows a run which failed partway
\* and itself meets no failure ends with every record that qualified in the
\* archive store exactly once and with no qualifying record in the live store.
C4_RerunCompletesMigration ==
  \A c \in Callers :
    (/\ run[c].pc = "done" /\ resp.op = "none"
     /\ run[c].prev = "partial"
     /\ run[c].prevRetention = run[c].retentionYears)
      => /\ \A x \in QualifiedAtStart(run[c]) :
              Cardinality({a \in archive : a.id = x.id}) = 1
         /\ {x \in live : x.createdAt < run[c].cutoff} = {}

C4_Witness ==
  \E c \in Callers :
    /\ run[c].pc = "done" /\ resp.op = "none" /\ run[c].prev = "partial"
    /\ run[c].prevRetention = run[c].retentionYears
    /\ run[c].deletedCount >= 2
    /\ \E x \in QualifiedAtStart(run[c]) : x.id \in Ids(run[c].archiveAtStart)
    /\ \E x \in QualifiedAtStart(run[c]) : x.id \notin Ids(run[c].archiveAtStart)

\* C7: the archive store never holds two records with one id, and a batch
\* write leaves every record that is already archived as it is.
C7_ArchiveIdsUnique ==
  [][/\ \A a \in archive', b \in archive' : a.id = b.id => a = b
     /\ \A c \in Callers : run[c].pc = "write" => archive \subseteq archive']_vars

C7_Witness ==
  \E c \in Callers :
    \E i \in 1..Len(run[c].log) :
      /\ run[c].log[i].ev = "write"
      /\ \E x \in run[c].liveAtStart :
           /\ x.id \in SeqToSet(run[c].log[i].ids)
           /\ \E a \in archive : a.id = x.id /\ a.amount # x.amount

\* C9: archiving live records and then restoring a date range that covers
\* their createdAt leaves the live store with, for each of them, a record of
\* the same id, category, amount, month and year as before the archival.
C9_RoundTrip ==
  \A c \in Callers :
    LET r == run[c]
        N == Cardinality(QualifiedAtStart(r))
    IN  (/\ r.pc = "done" /\ N >= 1
         /\ r.archivedCount = N /\ r.deletedCount = N
         /\ resp.op = "restore" /\ resp.status = "ok"
         /\ \A x \in QualifiedAtStart(r) :
              resp.startDate <= x.createdAt /\ x.createdAt <= resp.endDate)
          => \A x \in QualifiedAtStart(r) : \E l \in live : Core(l) = Core(x)

\* C10: restoreFromArchive leaves the archive store as it was and returns the
\* number of archive records with createdAt in [startDate, endDate], each of
\* which it has upserted into the live store.
C10_RestoreKeepsArchive ==
  [][(resp' # resp /\ resp'.op = "restore")
       => /\ archive' = archive
          /\ (resp.status # "ok" /\ resp'.status = "ok")
               => LET hit == {a \in archive : /\ resp'.startDate <= a.createdAt
                                              /\ a.createdAt <= resp'.endDate}
                  IN  /\ resp'.value = Cardinality(hit)
                      /\ \A a \in hit : \E l \in live' : /\ Core(l) = Core(a)
                                                        /\ l.createdAt = a.createdAt
                      /\ Cardinality({l \in live' : l.id \in Ids(hit)}) = resp'.value
                      /\ \A l \in live : l.id \notin Ids(hit) => l \in live']_vars

C10_Witness ==
  /\ resp.op = "restore" /\ resp.status = "ok" /\ resp.value >= 1
  /\ \E a \in archive : a.createdAt < resp.startDate \/ a.createdAt > resp.endDate

\* C11: restoreFromArchive called with endDate < startDate fails, and changes
\* neither the live store nor the archive store.
C11_InvertedRangeFails ==
  [][(resp' # resp /\ resp'.op = "restore" /\ resp'.endDate < resp'.startDate
        /\ resp'.status # "running")
       => /\ resp'.status = "error"
          /\ live' = live
          /\ archive' = archive]_vars

\* C12: cleanupOldArchives(maxArchiveYears) removes exactly the archive records
\* created before now - maxArchiveYears, now being the clock at the call,
\* keeps every other archive record and leaves the live store as it is; a call
\* that throws removes nothing.
C12_CleanupRemovesExactlyOld ==
  [][(resp' # resp /\ resp'.op = "cleanup")
       => /\ live' = live
          /\ resp'.status = "running" => archive' = archive
          /\ resp'.status = "ok"
               => archive' = {a \in archive :
                                ~(a.createdAt < resp'.calledAt - resp'.maxArchiveYears)}
          /\ resp'.status = "error" => archive' = archive]_vars

C12_Witness ==
  /\ resp.op = "cleanup" /\ resp.status = "ok"
  /\ resp.affected >= 1
  /\ live # {}
  /\ \E a \in archive : a.createdAt = resp.calledAt - resp.maxArchiveYears

\* C13: the value cleanupOldArchives returns is the number of archive records
\* that the call deleted.
C13_CleanupReturnsDeleted ==
  [][(resp' # resp /\ resp'.op = "cleanup" /\ resp'.status = "ok")
       => resp'.value = Cardinality(archive \ archive')]_vars

\* C14: getArchiveStats on an archive store that was never created returns
\* totalArchivedRecords = 0 with no oldest and no newest record unless the
\* store itself fails, and a call changes neither store and creates no table.
C14_StatsReadOnly ==
  [][(resp' # resp /\ resp'.op = "stats")
       => /\ archive' = archive /\ live' = live /\ tableExists' = tableExists
          /\ (~tableExists /\ ~resp'.fault /\ resp'.status # "running")
               => /\ resp'.status = "ok"
                  /\ resp'.totalArchivedRecords = 0
                  /\ resp'.oldestRecord = {} /\ resp'.newestRecord = {}]_vars

C14_Witness ==
  /\ resp.op = "stats" /\ resp.status = "ok"
  /\ ~tableExists
  /\ resp.totalArchivedRecords = 0 /\ resp.oldestRecord = {}

\* a Number read in 2-decimal units: Math.round(x * 100)
ToCents(x) ==
  IF Len(x.m) = 0 THEN 0
  ELSE LET p == Strip(AddBits(AddBits(x.m \o Zeros(6), x.m \o Zeros(5)), x.m \o Zeros(2)))
           k == 0 - x.e
       IN  IF k <= 0 THEN FromBits(p \o Zeros(0 - k))
           ELSE IF k > Len(p) THEN 0
           ELSE FromBits(SubSeq(p, 1, Len(p) - k)) + p[Len(p) - k + 1]

RECURSIVE SumCents(_, _)
SumCents(amounts, n) ==
  IF n = 0 THEN 0 ELSE SumCents(amounts, n - 1) + ToCents(amounts[n])

RECURSIVE SumOfRecords(_, _)
SumOfRecords(list, n) ==
  IF n = 0 THEN 0 ELSE SumOfRecords(list, n - 1) + list[n].amount

BreakdownAmounts(group) == [j \in 1..Len(group.breakdown) |-> group.breakdown[j].amount]

GroupTotals(data) == [i \in 1..Len(data) |-> data[i].totalAmount]

\* C15: in every grouping mode the totalAmount of each group is exactly the
\* sum of the amounts of its breakdown entries.
C15_TotalIsBreakdownSum ==
  (trends.op = "process")
    => \A i \in 1..Len(trends.data) :
         LET amounts == BreakdownAmounts(trends.data[i])
         IN  trends.data[i].totalAmount = Sum(amounts, Len(amounts))

\* C16: for one record list the summary totalAmount is the same under month,
\* year and category grouping, and it is the sum of the amounts of the records.
C16_TotalsReconcile ==
  [][(trends'.op = "process")
       => /\ trends'.summary.totalAmount = NumberOf(SumOfRecords(expenses, Len(expenses)))
          /\ trends.op = "process"
               => trends'.summary.totalAmount = trends.summary.totalAmount]_vars

\* C17: the summary is taken over the group totals: totalAmount is their sum,
\* averageAmount is totalAmount divided by the number of groups, highestAmount
\* and lowestAmount are the largest and the smallest group total; with no
\* groups the list is empty and the three are 0.
C17_SummaryOverGroups ==
  (trends.op = "process")
    => LET totals == GroupTotals(trends.data)
           n == Len(totals)
           summary == trends.summary
       IN  /\ summary.totalAmount = Sum(totals, n)
           /\ ToCents(summary.totalAmount) = SumCents(totals, n)
           /\ (n = 0) <=> (Len(expenses) = 0)
           /\ n = 0 => /\ summary.averageAmount = NumberZero
                       /\ summary.highestAmount = NumberZero
                       /\ summary.lowestAmount = NumberZero
           /\ n > 0 => /\ summary.averageAmount = NumberDiv(summary.totalAmount, n)
                       /\ \E i \in 1..n : totals[i] = summary.highestAmount
                       /\ \E i \in 1..n : totals[i] = summary.lowestAmount
                       /\ \A i \in 1..n : /\ ~NumberLess(summary.highestAmount, totals[i])
                                          /\ ~NumberLess(totals[i], summary.lowestAmount)

C17_Witness ==
  /\ trends.op = "process"
  /\ Len(trends.data) = 2 /\ Len(expenses) = 3
  /\ NumberLess(trends.summary.lowestAmount, trends.summary.highestAmount)
  /\ NumberLess(trends.summary.lowestAmount, trends.summary.averageAmount)

\* C18: monthly groups come strictly ascending by (year, month), yearly groups
\* strictly ascending by year, category groups in non-increasing order of
\* totalAmount, whatever the order of the records.
C18_GroupsOrdered ==
  (trends.op = "process")
    => \A i \in 1..Len(trends.data) : \A j \in (i + 1)..Len(trends.data) :
         LET a == trends.data[i]
             b == trends.data[j]
         IN  IF trends.groupBy = "month"
             THEN a.year < b.year \/ (a.year = b.year /\ a.month < b.month)
             ELSE IF trends.groupBy = "year" THEN a.year < b.year
             ELSE ~NumberLess(a.totalAmount, b.totalAmount)

C18_Witness ==
  /\ trends.op = "process" /\ trends.groupBy = "category"
  /\ Len(trends.data) = 2
  /\ trends.data[1].category # expenses[1].category
  /\ NumberLess(trends.data[2].totalAmount, trends.data[1].totalAmount)

\* the period of a record lies in the range of a query that spans several years
InCrossYearRange(r, q) ==
  \/ r.year = q.startYear /\ (q.startMonth = 0 \/ r.month >= q.startMonth)
  \/ q.startYear < r.year /\ r.year < q.endYear
  \/ r.year = q.endYear /\ (q.endMonth = 0 \/ r.month <= q.endMonth)

\* C19: for startYear < endYear a record is read if and only if its period is
\* in the start year from startMonth on (the whole year without startMonth),
\* in a year strictly between, or in the end year up to endMonth (the whole
\* year without endMonth), and it is of the category asked for, if any.
C19_CrossYearRange ==
  (/\ trends.op = "getTrends" /\ trends.status = "ok"
   /\ trends.query.startYear < trends.query.endYear)
    => \A r \in live :
         (\E i \in 1..Len(expenses) : expenses[i] = r)
           <=> /\ InCrossYearRange(r, trends.query)
               /\ trends.query.category = "" \/ r.category = trends.query.category

C19_Witness ==
  /\ trends.op = "getTrends" /\ trends.status = "ok"
  /\ trends.query.startYear = 2023 /\ trends.query.startMonth = 11
  /\ trends.query.endYear = 2024 /\ trends.query.endMonth = 2
  /\ trends.query.category = ""
  /\ \E i \in 1..Len(expenses) : expenses[i].year = 2023 /\ expenses[i].month = 12
  /\ \E i \in 1..Len(expenses) : expenses[i].year = 2024 /\ expenses[i].month = 1
  /\ \E r \in live : r.year = 2023 /\ r.month = 10
  /\ \E r \in live : r.year = 2024 /\ r.month = 3
  /\ \A i \in 1..Len(expenses) :
       /\ ~(expenses[i].year = 2023 /\ expenses[i].month = 10)
       /\ ~(expenses[i].year = 2024 /\ expenses[i].month = 3)

\* C20: for startYear = endYear the where object is one clause on that year,
\* never a list of alternatives and never without the year, with month >=
\* startMonth exactly when startMonth is supplied and month <= endMonth exactly
\* when endMonth is supplied.
C20_SameYearSingleClause ==
  (/\ trends.op = "getTrends" /\ trends.status = "ok"
   /\ trends.query.startYear = trends.query.endYear)
    => LET q == trends.query
           where == trends.where
       IN  /\ ~where.hasOR /\ where.OR = <<>>
           /\ where.year = [NoFilter EXCEPT !.equals = {q.startYear}]
           /\ where.month.gte = (IF q.startMonth # 0 THEN {q.startMonth} ELSE {})
           /\ where.month.lte = (IF q.endMonth # 0 THEN {q.endMonth} ELSE {})
           /\ where.month.equals = {} /\ where.month.gt = {} /\ where.month.lt = {}
           /\ \A r \in live :
                (\E i \in 1..Len(expenses) : expenses[i] = r)
                  <=> /\ r.year = q.startYear
                      /\ q.startMonth = 0 \/ r.month >= q.startMonth
                      /\ q.endMonth = 0 \/ r.month <= q.endMonth
                      /\ q.category = "" \/ r.category = q.category

C20_Witness ==
  /\ trends.op = "getTrends" /\ trends.status = "ok"
  /\ trends.query.startYear = trends.query.endYear
  /\ trends.query.startYear = 2023
  /\ trends.query.startMonth = 0 /\ trends.query.endMonth = 11
  /\ trends.query.category = ""
  /\ Len(expenses) = 2
  /\ \E r \in live : r.year = 2023 /\ r.month = 12
  /\ trends.where.month.lte = {11} /\ trends.where.month.gte = {}

\* the range of a query is the wrong way round
Inverted(q) ==
  \/ q.endYear < q.startYear
  \/ /\ q.startYear = q.endYear /\ q.startMonth # 0 /\ q.endMonth # 0
     /\ q.endMonth < q.startMonth

\* C21: a trends request with endYear < startYear, or within one year with both
\* months given and endMonth < startMonth, fails with the error of the
\* validation and yields no groups: the store is not read and nothing is
\* aggregated.
C21_InvertedRangeRejected ==
  (trends.op = "getTrends" /\ trends.status # "error" /\ Inverted(trends.query))
    => /\ trends.status = "invalid"
       /\ trends.error = "ValidationError"
       /\ "data" \notin DOMAIN trends
       /\ expenses = <<>>

C21_Witness ==
  /\ trends.op = "getTrends" /\ trends.status = "invalid"
  /\ trends.query.startYear = trends.query.endYear
  /\ trends.query.startMonth = 11 /\ trends.query.endMonth = 2
  /\ "data" \notin DOMAIN trends

\* C25: no two live records share (category, month, year), in every reachable
\* state: a create or a restore that would bring in a second record for a
\* triple fails and leaves the first one alone.
C25_LiveTripleUnique ==
  \A a \in live : \A b \in live :
    (a.category = b.category /\ a.month = b.month /\ a.year = b.year) => a = b

C25_Witness ==
  /\ resp.op = "restore" /\ resp.status = "error"
  /\ \E a \in InRange(archive, resp.startDate, resp.endDate) :
     \E l \in live :
       /\ a.id # l.id /\ a.id \notin Ids(live)
       /\ a.category = l.category /\ a.month = l.month /\ a.year = l.year
       /\ l.createdAt > a.createdAt

\* C30: when the bulk delete of a run that ends well removes a live record,
\* the archive record of its id has the category, amount, month and year the
\* live record has at that moment, also when the id was in the archive before
\* and the live amount has been changed since.
C30_ArchiveMatchesDeleted ==
  [][\A c \in Callers :
       (run[c].pc = "delete" /\ run'[c].pc = "done")
         => \A l \in live \ live' :
              \A a \in archive' : a.id = l.id => Core(a) = Core(l)]_vars

\* C28: for every batchSize of the configuration, 0 included, a run that
\* returns has deletedCount <= archivedCount, and every record it removed
\* from the live store is one that it wrote to the archive store.
C28_AnyBatchSizeSafe ==
  \A c \in Callers :
    LET r == run[c]
    IN  r.pc = "done"
          => /\ r.deletedCount <= r.archivedCount
             /\ Ids(r.liveAtStart \ live) \subseteq SeqToSet(Flatten(Writes(r)))

\* C23: when the archive service fails in a run of the archive task or of the
\* maintenance task, the callback logs the error and nothing is thrown out of
\* it; when it fails in triggerArchival or triggerMaintenance, the error is
\* logged and thrown to the caller.
C23_JobsCatchTriggersRethrow ==
  /\ sched.last.op \in {"archiveTask", "maintenanceTask"}
       => /\ ~sched.last.thrown
          /\ sched.last.failed => sched.last.logged
  /\ sched.last.op \in {"triggerArchival", "triggerMaintenance"}
       => /\ sched.last.failed => (sched.last.logged /\ sched.last.thrown)
          /\ sched.last.thrown => sched.last.failed

C23_Witness ==
  /\ sched.last.op = "maintenanceTask"
  /\ sched.last.failed /\ sched.last.cleanupCalled
  /\ sched.last.logged /\ ~sched.last.thrown

\* a step of the maintenance task or of triggerMaintenance
MaintenanceStep(who) ==
  Maintenance(who) \/ MaintenanceStats(who) \/ MaintenanceCleanup(who)

\* C24: a maintenance run, scheduled or triggered, calls cleanupOldArchives
\* only when CLEANUP_OLD_ARCHIVES is 'true'; with the variable unset or set to
\* anything else no step of the run removes an archive record, and
\* triggerMaintenance returns cleanedCount = 0.
C24_CleanupOnlyWhenEnabled ==
  [][\A who \in MaintCallers :
       /\ MaintenanceCleanup(who) => sched.CLEANUP_OLD_ARCHIVES = "true"
       /\ (MaintenanceStep(who) /\ sched.CLEANUP_OLD_ARCHIVES # "true")
            => /\ archive' = archive
               /\ sched'.maint[who].pc # "cleanup"
               /\ (sched'.maint[who].pc = "idle" /\ ~sched'.last.failed)
                    => /\ ~sched'.last.cleanupCalled
                       /\ who = "triggerMaintenance" => sched'.last.cleanedCount = 0]_vars

C24_Witness ==
  /\ sched.last.op = "triggerMaintenance"
  /\ ~sched.last.failed /\ ~sched.last.cleanupCalled /\ sched.last.cleanedCount = 0
  /\ sched.CLEANUP_OLD_ARCHIVES = "false"
  /\ CleanupSet(archive, CutoffDate(now, MaxArchiveYearsOf(sched.MAX_ARCHIVE_YEARS))) # {}

AllOrNone(tasks) ==
  \/ \A i \in 1..Len(tasks) : tasks[i] = "scheduled"
  \/ \A i \in 1..Len(tasks) : tasks[i] # "scheduled"

\* C26: whatever the sequence of initialize, startAll and stopAll, the
\* registered jobs are all scheduled or all not scheduled; initialize leaves
\* three jobs, scheduled exactly when NODE_ENV is 'production' or
\* ENABLE_SCHEDULED_TASKS is 'true'; getStatus reports as runningTasks the
\* number of jobs that are scheduled and as scheduledTasksEnabled whether one
\* of the two variables enables scheduling.
C26_JobsToggleTogether ==
  [][/\ AllOrNone(sched'.tasks)
     /\ Initialize
          => /\ Len(sched'.tasks) = 3
             /\ (\A i \in 1..3 : sched'.tasks[i] = "scheduled")
                  <=> (sched.NODE_ENV = "production"
                         \/ sched.ENABLE_SCHEDULED_TASKS = "true")
     /\ GetStatus
          => /\ sched'.last.totalTasks = Len(sched.tasks)
             /\ sched'.last.runningTasks
                  = Cardinality({i \in 1..Len(sched.tasks) : sched.tasks[i] = "scheduled"})
             /\ sched'.last.scheduledTasksEnabled
                  <=> (sched.NODE_ENV = "production"
                         \/ sched.ENABLE_SCHEDULED_TASKS = "true")]_vars

C26_Witness ==
  /\ sched.last.op = "getStatus"
  /\ sched.NODE_ENV = "production"
  /\ sched.orphaned = {1, 2, 3}
  /\ sched.tasks = <<"stoped", "stoped", "stoped">>
  /\ sched.last.runningTasks = 0 /\ sched.last.totalTasks = 3
  /\ sched.last.scheduledTasksEnabled

\* after the count step and not after the bulk delete
Between(c) == run[c].pc \in {"read", "write", "delete"}

\* C22: while a run of the archive task is in flight, a call of triggerArchival
\* is not blocked, rejected or queued: it starts a second run of
\* archiveOldData at once, so that two runs can both be between their count
\* step and their bulk delete.
C22_TriggerNotBlocked ==
  (run["scheduled"].pc \notin {"idle", "done", "failed"} /\ run["manual"].pc = "idle")
    => \A retentionYears \in Retentions : ENABLED TriggerArchival(retentionYears)

C22_Witness == Between("scheduled") /\ Between("manual")

\* the bulk delete of run c succeeds
DeleteManyDone(c) == run[c].pc = "delete" /\ run'[c].pc = "done"

\* C27: a run archives every record that its final bulk delete removes, also
\* when another operation (deleteExpense, or the bulk delete of a second run)
\* removes a qualifying live record between two of its batch reads.
C27_PagingArchivesAllDeleted ==
  [][\A c \in Callers :
       DeleteManyDone(c) => \A x \in live \ live' : x.id \in Ids(archive)]_vars

InFlight(c) == run[c].pc \in {"ensure", "index", "count", "read", "write", "delete"}

\* C29: with a batch size of 1 or more and every store call returning, a run
\* makes at most ceil(N / batchSize) batch reads, N being the number it
\* counted, and then returns or fails; it ends whatever is deleted from, created
\* in or restored to the live store while it runs.
C29_RunTerminates ==
  /\ [](\A c \in Callers :
          run[c].batchSize >= 1
            => Len(Reads(run[c])) <= CeilDiv(run[c].recordsToArchive, run[c].batchSize))
  /\ InFlight("manual") ~> (run["manual"].pc \in {"done", "failed"})

C29_Witness ==
  /\ run["manual"].pc = "done"
  /\ run["manual"].batchSize = 1 /\ run["manual"].recordsToArchive = 2
  /\ Len(Reads(run["manual"])) = 2
  /\ Reads(run["manual"])[2].ids = <<>>
  /\ live # {}

====
